---- MODULE Spec2Model ----
(***************************************************************************)
(* A model of the raptor_converter package: the .rapcode lexer and         *)
(* statement parser, the precedence-climbing expression parser, the        *)
(* expression printer, the .rapcode generator, the Raptor XML translator   *)
(* and the diagram walker shared by the Mermaid and Graphviz generators.   *)
(*                                                                         *)
(* Text is a sequence of one-character strings; a token is such a          *)
(* sequence too.  AST nodes are records whose fields carry values of one   *)
(* type each, so that any two nodes can be compared.                       *)
(***************************************************************************)
EXTENDS Integers, Sequences, FiniteSets, TLC

VARIABLES
    phase,      \* position of the driver: which call has been made last
    ast,        \* the AST handed to a generator, or chosen as the program
    text,       \* source text handed to RapcodeParser.parse
    tokens,     \* token list handed to ExpressionParser
    result,     \* what the last parser call returned (or how it failed)
    xml,        \* the Raptor XML document handed to RaptorXMLParser
    gen,        \* the AstVisualizer instance: node_count, loop_exit_stack
    outputs,    \* what successive generate calls on that instance returned
    edits       \* the edits applied to the generated text so far

vars == <<phase, ast, text, tokens, result, xml, gen, outputs, edits>>

-----------------------------------------------------------------------------
(* Characters *)

Digit == {"0", "1", "2", "3", "4", "5", "6", "7", "8", "9"}
Upper == {"A", "B", "C", "D", "E", "F", "G", "H", "I", "J", "K", "L", "M",
          "N", "O", "P", "Q", "R", "S", "T", "U", "V", "W", "X", "Y", "Z"}
Lower == {"a", "b", "c", "d", "e", "f", "g", "h", "i", "j", "k", "l", "m",
          "n", "o", "p", "q", "r", "s", "t", "u", "v", "w", "x", "y", "z"}
Alpha == Upper \cup Lower
IdentStart == Alpha \cup {"_"}
IdentChar == Alpha \cup Digit \cup {"_"}
Whitespace == {" ", "\t", "\n", "\r"}
Punct == {":", "=", "!", "<", ">", "+", "-", "*", "/", "^", "(", ")", "\"",
          "\\", ".", ",", "?", "#", ";"}
Chars == Alpha \cup Digit \cup Whitespace \cup Punct \cup {"_"}

\* The end (exclusive) of the longest run of characters of `set` from i.
RECURSIVE SpanEnd(_, _, _)
SpanEnd(s, i, set) ==
    IF i <= Len(s) /\ s[i] \in set THEN SpanEnd(s, i + 1, set) ELSE i

\* Concatenation of a sequence of sequences.
RECURSIVE Flatten(_)
Flatten(ss) == IF ss = <<>> THEN <<>> ELSE Head(ss) \o Flatten(Tail(ss))

\* str.startswith / str.endswith for one character.
StartsWith(s, c) == Len(s) >= 1 /\ s[1] = c
EndsWith(s, c) == Len(s) >= 1 /\ s[Len(s)] = c

-----------------------------------------------------------------------------
(* Tokens and keywords *)

NEWLINE == <<"<NEWLINE>">>
NoToken == <<>>

KW_IF == <<"I", "F">>
KW_THEN == <<"T", "H", "E", "N">>
KW_ELSE == <<"E", "L", "S", "E">>
KW_ENDIF == <<"E", "N", "D", "I", "F">>
KW_WHILE == <<"W", "H", "I", "L", "E">>
KW_DO == <<"D", "O">>
KW_LOOP == <<"L", "O", "O", "P">>
KW_ENDLOOP == <<"E", "N", "D", "L", "O", "O", "P">>
KW_BREAK == <<"B", "R", "E", "A", "K">>
KW_INPUT == <<"I", "N", "P", "U", "T">>
KW_OUTPUT == <<"O", "U", "T", "P", "U", "T">>
KW_TRUE == <<"T", "R", "U", "E">>
KW_FALSE == <<"F", "A", "L", "S", "E">>
KW_NOT == <<"N", "O", "T">>
KW_AND == <<"A", "N", "D">>
KW_OR == <<"O", "R">>
KW_MOD == <<"M", "O", "D">>
T_ASSIGN == <<":", "=">>
T_LPAREN == <<"(">>
T_RPAREN == <<")">>
T_MINUS == <<"-">>

RESERVED_KEYWORDS ==
    {KW_IF, KW_THEN, KW_ELSE, KW_ENDIF, KW_WHILE, KW_DO, KW_LOOP, KW_ENDLOOP,
     KW_BREAK, KW_INPUT, KW_OUTPUT, KW_TRUE, KW_FALSE, KW_NOT, KW_AND, KW_OR,
     KW_MOD}

ComparisonOps ==
    {<<"=", "=">>, <<"!", "=">>, <<"<">>, <<">">>, <<"<", "=">>, <<">", "=">>}
AdditiveOps == {<<"+">>, <<"-">>}
MultiplicativeOps == {<<"*">>, <<"/">>, KW_MOD}
UnaryOps == {KW_NOT, T_MINUS}

-----------------------------------------------------------------------------
(* RapcodeParser._tokenize: TOKEN_REGEX applied left to right *)

TwoCharOps ==
    {<<":", "=">>, <<"=", "=">>, <<"!", "=">>, <<"<", "=">>, <<">", "=">>}
OneCharOps == {"<", ">", "+", "-", "*", "/", "^"}

\* Group 6, after the opening quote: the index of the closing quote, 0 if
\* the string is not closed ("\\." does not match a newline).
RECURSIVE StringClose(_, _)
StringClose(s, j) ==
    IF j > Len(s) THEN 0
    ELSE IF s[j] = "\\"
         THEN IF j + 1 <= Len(s) /\ s[j + 1] # "\n"
              THEN StringClose(s, j + 2) ELSE 0
    ELSE IF s[j] = "\"" THEN j
    ELSE StringClose(s, j + 1)

\* Group 5: \d+(?:\.\d*)?
NumberEnd(s, i) ==
    LET j == SpanEnd(s, i, Digit)
    IN  IF j <= Len(s) /\ s[j] = "." THEN SpanEnd(s, j + 1, Digit) ELSE j

\* One NEWLINE marker per newline character of a whitespace run.
NewlineMarkers(run) ==
    LET nl == SelectSeq(run, LAMBDA c : c = "\n")
    IN  [k \in 1..Len(nl) |-> NEWLINE]

\* A comment that takes the line break after it as well.
CommentMatch_WithLineBreak(s, i) ==
    [toks |-> <<>>, next |-> SpanEnd(s, i + 2, Chars \ {"\n"}) + 1]

\* Group 2: -- and the rest of the line; no token is appended.
CommentMatch(s, i) ==
    [toks |-> <<>>, next |-> SpanEnd(s, i + 2, Chars \ {"\n"})]

\* The match of TOKEN_REGEX at i: the tokens it appends to raw_tokens and the
\* position after it.  The groups are tried in the order of the pattern.
MatchAt(s, i) ==
    IF s[i] \in Whitespace THEN
        LET j == SpanEnd(s, i, Whitespace)
        IN  [toks |-> NewlineMarkers(SubSeq(s, i, j - 1)), next |-> j]
    ELSE IF s[i] = "-" /\ i + 1 <= Len(s) /\ s[i + 1] = "-" THEN
        CommentMatch(s, i)
    ELSE IF s[i] \in IdentStart THEN
        LET j == SpanEnd(s, i + 1, IdentChar)
        IN  [toks |-> <<SubSeq(s, i, j - 1)>>, next |-> j]
    ELSE IF i + 1 <= Len(s) /\ SubSeq(s, i, i + 1) \in TwoCharOps THEN
        [toks |-> <<SubSeq(s, i, i + 1)>>, next |-> i + 2]
    ELSE IF s[i] \in OneCharOps THEN
        [toks |-> <<<<s[i]>>>>, next |-> i + 1]
    ELSE IF s[i] \in Digit THEN
        LET j == NumberEnd(s, i)
        IN  [toks |-> <<SubSeq(s, i, j - 1)>>, next |-> j]
    ELSE IF s[i] = "\"" /\ StringClose(s, i + 1) # 0 THEN
        LET j == StringClose(s, i + 1)
        IN  [toks |-> <<SubSeq(s, i, j)>>, next |-> j + 1]
    ELSE [toks |-> <<<<s[i]>>>>, next |-> i + 1]

RECURSIVE TokenizeFrom(_, _)
TokenizeFrom(s, i) ==
    IF i > Len(s) THEN <<>>
    ELSE MatchAt(s, i).toks \o TokenizeFrom(s, MatchAt(s, i).next)

Tokenize(code) == TokenizeFrom(code, 1)

-----------------------------------------------------------------------------
(* ast/nodes.py: the node factories *)

None == [type |-> "None"]

create_program(body) == [type |-> "Program", body |-> body]
create_block(body) == [type |-> "BlockStatement", body |-> body]

\* A Literal carries its Python type in `kind`: "int" (ival), "float" (ival
\* the integer part, sval the fraction digits), "bool" (ival 1 or 0) and
\* "str" (sval the characters).
IntLiteral(n) == [type |-> "Literal", kind |-> "int", ival |-> n, sval |-> <<>>]
FloatLiteral(n, frac) ==
    [type |-> "Literal", kind |-> "float", ival |-> n, sval |-> frac]
BoolLiteral(b) ==
    [type |-> "Literal", kind |-> "bool", ival |-> IF b THEN 1 ELSE 0,
     sval |-> <<>>]
\* create_literal on a str: enclosing quotes are stripped.
create_literal(value) ==
    [type |-> "Literal", kind |-> "str", ival |-> 0,
     sval |-> IF StartsWith(value, "\"") /\ EndsWith(value, "\"")
              THEN SubSeq(value, 2, Len(value) - 1) ELSE value]

create_identifier(name) == [type |-> "Identifier", name |-> name]
create_binary_expression(operator, left, right) ==
    [type |-> "BinaryExpression", operator |-> operator, left |-> left,
     right |-> right]
create_unary_expression(operator, argument) ==
    [type |-> "UnaryExpression", operator |-> operator, argument |-> argument]
create_call_expression(callee, arguments) ==
    [type |-> "CallExpression", callee |-> callee, arguments |-> arguments]
CALLEE_INPUT == <<"I", "n", "p", "u", "t">>
CALLEE_OUTPUT == <<"O", "u", "t", "p", "u", "t">>
create_input_expression(prompt_node) ==
    create_call_expression(CALLEE_INPUT, <<prompt_node>>)
create_output_statement(argument_node) ==
    [type |-> "ExpressionStatement",
     expression |-> create_call_expression(CALLEE_OUTPUT, <<argument_node>>)]
create_assignment_statement(left, right) ==
    [type |-> "AssignmentStatement", left |-> left, right |-> right]
\* alternate_body is None for "no alternate", or List(statements).
List(items) == [type |-> "list", items |-> items]
create_if_statement(test, consequent_body, alternate_body) ==
    [type |-> "IfStatement", test |-> test,
     consequent |-> create_block(consequent_body),
     alternate |-> IF alternate_body.type = "None" THEN None
                   ELSE create_block(alternate_body.items)]
create_while_statement(test, body) ==
    [type |-> "WhileStatement", test |-> test, body |-> create_block(body)]
create_break_statement == [type |-> "BreakStatement"]

-----------------------------------------------------------------------------
(* Python's int(), float() and str() on the number tokens of the lexer *)

DigitSeq == <<"0", "1", "2", "3", "4", "5", "6", "7", "8", "9">>
DigitVal(c) == (CHOOSE k \in 1..10 : DigitSeq[k] = c) - 1

\* int("...") of a digit string.
RECURSIVE IntOf(_)
IntOf(ds) ==
    IF ds = <<>> THEN 0
    ELSE 10 * IntOf(SubSeq(ds, 1, Len(ds) - 1)) + DigitVal(ds[Len(ds)])

\* str(n) of a non-negative int.
RECURSIVE StrOfInt(_)
StrOfInt(n) ==
    IF n < 10 THEN <<DigitSeq[n + 1]>>
    ELSE StrOfInt(n \div 10) \o <<DigitSeq[(n % 10) + 1]>>

RECURSIVE StripTrailingZeros(_)
StripTrailingZeros(ds) ==
    IF ds # <<>> /\ ds[Len(ds)] = "0"
    THEN StripTrailingZeros(SubSeq(ds, 1, Len(ds) - 1)) ELSE ds

\* \d+(\.\d*)? as a full match.
IsNumberToken(t) == t # <<>> /\ t[1] \in Digit /\ NumberEnd(t, 1) = Len(t) + 1
IsIdentifierToken(t) ==
    t # <<>> /\ t[1] \in IdentStart /\ SpanEnd(t, 2, IdentChar) = Len(t) + 1

\* The Literal of a number token: int(token), and float(token) when int()
\* raises ValueError (the token has a dot).  A float is kept as its integer
\* part and its fraction digits without trailing zeros, which identifies the
\* double for the short decimal tokens considered here.
NumberLiteral(t) ==
    LET dot == SpanEnd(t, 1, Digit)
    IN  IF dot > Len(t) THEN IntLiteral(IntOf(t))
        ELSE FloatLiteral(IntOf(SubSeq(t, 1, dot - 1)),
                          StripTrailingZeros(SubSeq(t, dot + 1, Len(t))))

\* str(x) of a float: repr switches to exponent notation below 1e-4.
StrOfFloat(n, frac) ==
    LET z == SpanEnd(frac, 1, {"0"}) - 1      \* leading zeros of the fraction
        sig == SubSeq(frac, z + 1, Len(frac)) \* significant digits
        e == z + 1
    IN  IF n = 0 /\ frac # <<>> /\ z >= 4
        THEN <<sig[1]>>
             \o (IF Len(sig) > 1 THEN <<".">> \o Tail(sig) ELSE <<>>)
             \o <<"e", "-">>
             \o (IF e < 10 THEN <<"0">> ELSE <<>>) \o StrOfInt(e)
        ELSE StrOfInt(n) \o <<".">> \o (IF frac = <<>> THEN <<"0">> ELSE frac)

-----------------------------------------------------------------------------
(* parsing/expression_parser.py: ExpressionParser *)

\* What a parsing method returns: the node and the position reached, or the
\* ParsingError it raised.
Ok(node, pos) == [ok |-> TRUE, node |-> node, pos |-> pos, err |-> "none"]
Raise(err) == [ok |-> FALSE, node |-> None, pos |-> 0, err |-> err]

Peek(toks, pos) == IF pos <= Len(toks) THEN toks[pos] ELSE NoToken

\* The node built from the results of the sub-parses; an exception raised
\* by a sub-parse propagates.
BinaryResult(operator, l, r) ==
    IF ~r.ok THEN r
    ELSE Ok(create_binary_expression(operator, l.node, r.node), r.pos)
UnaryResult(operator, a) ==
    IF ~a.ok THEN a ELSE Ok(create_unary_expression(operator, a.node), a.pos)
InputResult(r) ==
    IF ~r.ok THEN r ELSE Ok(create_input_expression(r.node), r.pos)

RECURSIVE ParseLogicalOr(_, _), OrLoop(_, _), ParseLogicalAnd(_, _)
RECURSIVE AndLoop(_, _), ParseComparison(_, _), ParseAdditive(_, _)
RECURSIVE AdditiveLoop(_, _), ParseMultiplicative(_, _)
RECURSIVE MultiplicativeLoop(_, _), ParseUnary(_, _), ParseAtom(_, _)

\* _consume(")") after a parenthesised expression or an INPUT prompt.
CloseParen(toks, r) ==
    IF ~r.ok THEN r
    ELSE IF Peek(toks, r.pos) # T_RPAREN THEN Raise("Expected")
    ELSE Ok(r.node, r.pos + 1)

ParseAtom(toks, pos) ==
    LET token == Peek(toks, pos)
    IN  IF token = NoToken THEN Raise("UnexpectedEnd")
        ELSE IF token = T_LPAREN THEN
            CloseParen(toks, ParseLogicalOr(toks, pos + 1))
        ELSE IF token = KW_INPUT THEN
            IF Peek(toks, pos + 1) # T_LPAREN THEN Raise("Expected")
            ELSE InputResult(CloseParen(toks, ParseLogicalOr(toks, pos + 2)))
        ELSE IF token = KW_TRUE THEN Ok(BoolLiteral(TRUE), pos + 1)
        ELSE IF token = KW_FALSE THEN Ok(BoolLiteral(FALSE), pos + 1)
        ELSE IF StartsWith(token, "\"") THEN Ok(create_literal(token), pos + 1)
        ELSE IF IsNumberToken(token) THEN Ok(NumberLiteral(token), pos + 1)
        ELSE IF IsIdentifierToken(token)
             THEN Ok(create_identifier(token), pos + 1)
        ELSE Raise("UnexpectedToken")

\* Mutant: the operand of a prefix operator extends over a following product.
ParseUnary_Loose(toks, pos) ==
    IF Peek(toks, pos) \in UnaryOps
    THEN UnaryResult(Peek(toks, pos), ParseMultiplicative(toks, pos + 1))
    ELSE ParseAtom(toks, pos)

ParseUnary(toks, pos) ==
    IF Peek(toks, pos) \in UnaryOps
    THEN UnaryResult(Peek(toks, pos), ParseUnary(toks, pos + 1))
    ELSE ParseAtom(toks, pos)

\* Mutant: the multiplicative loop also takes + and -.
MultiplicativeLoop_AlsoAdditive(toks, l) ==
    IF ~l.ok THEN l
    ELSE IF Peek(toks, l.pos) \in MultiplicativeOps \cup AdditiveOps THEN
        MultiplicativeLoop(toks,
            BinaryResult(Peek(toks, l.pos), l, ParseUnary(toks, l.pos + 1)))
    ELSE l

\* The while loop of _parse_multiplicative; l is the left operand so far.
MultiplicativeLoop(toks, l) ==
    IF ~l.ok THEN l
    ELSE IF Peek(toks, l.pos) \in MultiplicativeOps THEN
        MultiplicativeLoop(toks,
            BinaryResult(Peek(toks, l.pos), l, ParseUnary(toks, l.pos + 1)))
    ELSE l

ParseMultiplicative(toks, pos) ==
    MultiplicativeLoop(toks, ParseUnary(toks, pos))

\* Mutant: the right operand of + and - is a whole additive expression.
AdditiveLoop_RightAssoc(toks, l) ==
    IF ~l.ok THEN l
    ELSE IF Peek(toks, l.pos) \in AdditiveOps THEN
        BinaryResult(Peek(toks, l.pos), l, ParseAdditive(toks, l.pos + 1))
    ELSE l

\* The while loop of _parse_additive.
AdditiveLoop(toks, l) ==
    IF ~l.ok THEN l
    ELSE IF Peek(toks, l.pos) \in AdditiveOps THEN
        AdditiveLoop(toks,
            BinaryResult(Peek(toks, l.pos), l,
                         ParseMultiplicative(toks, l.pos + 1)))
    ELSE l

ParseAdditive(toks, pos) ==
    AdditiveLoop(toks, ParseMultiplicative(toks, pos))

\* Mutant: the right operand of a comparison is itself a comparison, so a
\* chain a < b < c is accepted.
ComparisonRest_Chained(toks, l) ==
    IF ~l.ok THEN l
    ELSE IF Peek(toks, l.pos) \in ComparisonOps THEN
        BinaryResult(Peek(toks, l.pos), l, ParseComparison(toks, l.pos + 1))
    ELSE l

\* Mutant: parse returns the expression whatever follows it.
NoLeftover_Ignored(toks, r) == r

\* The if of _parse_comparison: at most one comparison operator.
ComparisonRest(toks, l) ==
    IF ~l.ok THEN l
    ELSE IF Peek(toks, l.pos) \in ComparisonOps THEN
        BinaryResult(Peek(toks, l.pos), l, ParseAdditive(toks, l.pos + 1))
    ELSE l

ParseComparison(toks, pos) ==
    ComparisonRest(toks, ParseAdditive(toks, pos))

\* The while loop of _parse_logical_and.
AndLoop(toks, l) ==
    IF ~l.ok THEN l
    ELSE IF Peek(toks, l.pos) = KW_AND THEN
        AndLoop(toks, BinaryResult(KW_AND, l, ParseComparison(toks, l.pos + 1)))
    ELSE l

ParseLogicalAnd(toks, pos) ==
    AndLoop(toks, ParseComparison(toks, pos))

\* The while loop of _parse_logical_or.
OrLoop(toks, l) ==
    IF ~l.ok THEN l
    ELSE IF Peek(toks, l.pos) = KW_OR THEN
        OrLoop(toks, BinaryResult(KW_OR, l, ParseLogicalAnd(toks, l.pos + 1)))
    ELSE l

ParseLogicalOr(toks, pos) ==
    OrLoop(toks, ParseLogicalAnd(toks, pos))

\* The end of ExpressionParser.parse: ParsingError on leftover tokens.
NoLeftover(toks, r) ==
    IF ~r.ok THEN r
    ELSE IF Peek(toks, r.pos) # NoToken THEN Raise("UnexpectedToken")
    ELSE r

\* ExpressionParser(raw_tokens).parse(): None on an empty token list.
ExpressionParser_parse(raw_tokens) ==
    IF raw_tokens = <<>> THEN Ok(None, 1)
    ELSE NoLeftover(raw_tokens, ParseLogicalOr(raw_tokens, 1))

-----------------------------------------------------------------------------
(* parsing/rapcode_parser.py: RapcodeParser *)

\* A call that never returns: a loop of the parser that repeats one
\* iteration without consuming a token.
Hang == [ok |-> FALSE, node |-> None, pos |-> 0, err |-> "hang"]

RECURSIVE SkipNewlines(_, _)
SkipNewlines(toks, pos) ==
    IF Peek(toks, pos) = NEWLINE THEN SkipNewlines(toks, pos + 1) ELSE pos

IsExpressionStart(token) ==
    IF token = NoToken THEN FALSE
    ELSE IF token \in {T_LPAREN, KW_NOT, T_MINUS, KW_INPUT, KW_TRUE, KW_FALSE}
         THEN TRUE
    ELSE IF StartsWith(token, "\"") THEN TRUE
    ELSE IF token[1] \in Digit THEN TRUE
    ELSE token[1] \in Alpha /\ token \notin RESERVED_KEYWORDS

\* The tokens at which _parse_expression stops when no parenthesis is open.
ExpressionStops ==
    {NEWLINE, T_ASSIGN, KW_THEN, KW_DO, KW_ENDLOOP, KW_IF, KW_LOOP, KW_WHILE,
     KW_BREAK, KW_OUTPUT}

\* The position after the token run that _parse_expression collects.
RECURSIVE SliceEnd(_, _, _)
SliceEnd(toks, pos, open_parens) ==
    LET token == Peek(toks, pos)
    IN  IF token = NoToken THEN pos
        ELSE IF open_parens = 0 /\ token \in ExpressionStops THEN pos
        ELSE IF token = T_LPAREN THEN SliceEnd(toks, pos + 1, open_parens + 1)
        ELSE IF token = T_RPAREN THEN
            IF open_parens - 1 < 0 THEN pos + 1
            ELSE SliceEnd(toks, pos + 1, open_parens - 1)
        ELSE SliceEnd(toks, pos + 1, open_parens)

\* The end of _parse_expression: the node of the slice, the parser moved
\* behind the slice.
SliceResult(r, end) == IF ~r.ok THEN r ELSE Ok(r.node, end)

\* Mutant: an empty slice is handed to the expression parser like any other.
ParseExpression_NoEmptyCheck(toks, pos) ==
    SliceResult(ExpressionParser_parse(
                    SubSeq(toks, pos, SliceEnd(toks, pos, 0) - 1)),
                SliceEnd(toks, pos, 0))

ParseExpression(toks, pos) ==
    LET end == SliceEnd(toks, pos, 0)
    IN  IF SubSeq(toks, pos, end - 1) = <<>> THEN Raise("ExpectedExpression")
        ELSE SliceResult(ExpressionParser_parse(SubSeq(toks, pos, end - 1)),
                         end)

\* Mutant: the expression itself is made the statement, without the call.
OutputResult_NoCall(a) ==
    IF ~a.ok THEN a
    ELSE Ok([type |-> "ExpressionStatement", expression |-> a.node], a.pos)

OutputResult(a) ==
    IF ~a.ok THEN a ELSE Ok(create_output_statement(a.node), a.pos)

ParseOutput(toks, pos) == OutputResult(ParseExpression(toks, pos + 1))

RECURSIVE ParseStatement(_, _), ParseIf(_, _), ParseLoop(_, _)
RECURSIVE BlockLoop(_, _, _, _), BlockNext(_, _, _, _)

\* The statement loops of parse, _parse_if and _parse_loop: skip newlines,
\* leave at one of `stops`, otherwise append what _parse_statement returns.
BlockLoop(toks, pos, body, stops) ==
    IF Peek(toks, SkipNewlines(toks, pos)) \in stops
    THEN Ok(body, SkipNewlines(toks, pos))
    ELSE BlockNext(toks, body, stops,
                   ParseStatement(toks, SkipNewlines(toks, pos)))

\* _parse_statement returns None without consuming anything at the end of
\* the tokens and at ELSE, ENDIF, ENDLOOP; when that token is not one of
\* `stops` the next iteration finds the same token again.
BlockNext(toks, body, stops, s) ==
    IF ~s.ok THEN s
    ELSE IF s.node = None THEN Hang
    ELSE BlockLoop(toks, s.pos, Append(body, s.node), stops)

\* _parse_if after the ELSE body: _consume("ENDIF").
IfEnd(test, c, a) ==
    IF ~a.ok THEN a
    ELSE Ok(create_if_statement(test.node, c.node, List(a.node)), a.pos + 1)

\* _parse_if after the THEN body.
IfAlternate(toks, test, c) ==
    IF ~c.ok THEN c
    ELSE IF Peek(toks, c.pos) = KW_ELSE
         THEN IfEnd(test, c, BlockLoop(toks, c.pos + 1, <<>>, {KW_ENDIF}))
    ELSE IF Peek(toks, c.pos) # KW_ENDIF THEN Raise("Expected")
    ELSE Ok(create_if_statement(test.node, c.node, None), c.pos + 1)

\* _parse_if after the condition: _consume("THEN") and the THEN body.
IfBody(toks, test) ==
    IF ~test.ok THEN test
    ELSE IF Peek(toks, test.pos) # KW_THEN THEN Raise("Expected")
    ELSE IfAlternate(toks, test,
             BlockLoop(toks, test.pos + 1, <<>>,
                       {KW_ELSE, KW_ENDIF, NoToken}))

ParseIf(toks, pos) == IfBody(toks, ParseExpression(toks, pos + 1))

\* _parse_loop, WHILE branch: _consume("DO") after the condition.
ExpectDo(toks, t) ==
    IF ~t.ok THEN t
    ELSE IF Peek(toks, t.pos) # KW_DO THEN Raise("Expected")
    ELSE Ok(t.node, t.pos + 1)

\* _parse_loop: the condition, Literal true for LOOP.
LoopTest(toks, pos) ==
    IF Peek(toks, pos) = KW_LOOP THEN Ok(BoolLiteral(TRUE), pos + 1)
    ELSE ExpectDo(toks, ParseExpression(toks, pos + 1))

WhileResult(test, b) ==
    IF ~b.ok THEN b
    ELSE Ok(create_while_statement(test.node, b.node), b.pos + 1)

\* _parse_loop: the body, up to ENDLOOP.
LoopBody(toks, test) ==
    IF ~test.ok THEN test
    ELSE WhileResult(test, BlockLoop(toks, test.pos, <<>>, {KW_ENDLOOP}))

ParseLoop(toks, pos) == LoopBody(toks, LoopTest(toks, pos))

\* Mutant: the assignment is built whatever its left side is.
AssignmentResult_AnyTarget(l, r) ==
    IF ~r.ok THEN r
    ELSE Ok(create_assignment_statement(l.node, r.node), r.pos)

\* _parse_statement, assignment: the target must be an Identifier.
AssignmentResult(l, r) ==
    IF ~r.ok THEN r
    ELSE IF l.node.type # "Identifier" THEN Raise("InvalidAssignmentTarget")
    ELSE Ok(create_assignment_statement(l.node, r.node), r.pos)

\* _parse_statement after an expression: only an assignment is a statement.
AssignmentOf(toks, l) ==
    IF ~l.ok THEN l
    ELSE IF Peek(toks, l.pos) = T_ASSIGN
         THEN AssignmentResult(l, ParseExpression(toks, l.pos + 1))
    ELSE Raise("InvalidStatement")

ParseStatement(toks, pos) ==
    LET p == SkipNewlines(toks, pos)
        token == Peek(toks, p)
    IN  IF token \in {NoToken, KW_ELSE, KW_ENDIF, KW_ENDLOOP} THEN Ok(None, p)
        ELSE IF token = KW_IF THEN ParseIf(toks, p)
        ELSE IF token \in {KW_LOOP, KW_WHILE} THEN ParseLoop(toks, p)
        ELSE IF token = KW_BREAK THEN Ok(create_break_statement, p + 1)
        ELSE IF token = KW_OUTPUT THEN ParseOutput(toks, p)
        ELSE IF ~IsExpressionStart(token) THEN Raise("UnexpectedToken")
        ELSE AssignmentOf(toks, ParseExpression(toks, p))

ProgramResult(b) == IF ~b.ok THEN b ELSE Ok(create_program(b.node), b.pos)

\* RapcodeParser.parse on the tokens of the content.
ParseTokens(toks) == ProgramResult(BlockLoop(toks, 1, <<>>, {NoToken}))

RapcodeParser_parse(content) == ParseTokens(Tokenize(content))

-----------------------------------------------------------------------------
(* generation/expression_utils.py: expression_to_string *)

ExpressionTypes ==
    {"Literal", "Identifier", "BinaryExpression", "UnaryExpression",
     "CallExpression"}

RECURSIVE JoinWith(_, _)
JoinWith(parts, sep) ==
    IF parts = <<>> THEN <<>>
    ELSE IF Len(parts) = 1 THEN parts[1]
    ELSE parts[1] \o sep \o JoinWith(Tail(parts), sep)

\* Whether expression_to_string returns (it raises GenerationError on a
\* node of another type).
RECURSIVE ExpressionPrints(_)
ExpressionPrints(node) ==
    IF node = None THEN TRUE
    ELSE IF node.type \in {"Literal", "Identifier"} THEN TRUE
    ELSE IF node.type = "BinaryExpression"
         THEN ExpressionPrints(node.left) /\ ExpressionPrints(node.right)
    ELSE IF node.type = "UnaryExpression" THEN ExpressionPrints(node.argument)
    ELSE IF node.type = "CallExpression"
         THEN \A k \in 1..Len(node.arguments) :
                  ExpressionPrints(node.arguments[k])
    ELSE FALSE

RECURSIVE expression_to_string(_)
expression_to_string(node) ==
    IF node = None THEN <<>>
    ELSE IF node.type = "Literal" THEN
        IF node.kind = "str" THEN <<"\"">> \o node.sval \o <<"\"">>
        ELSE IF node.kind = "bool"
             THEN (IF node.ival = 1 THEN KW_TRUE ELSE KW_FALSE)
        ELSE IF node.kind = "float" THEN StrOfFloat(node.ival, node.sval)
        ELSE StrOfInt(node.ival)
    ELSE IF node.type = "Identifier" THEN node.name
    ELSE IF node.type = "BinaryExpression" THEN
        <<"(">> \o expression_to_string(node.left) \o <<" ">>
        \o node.operator \o <<" ">> \o expression_to_string(node.right)
        \o <<")">>
    ELSE IF node.type = "UnaryExpression" THEN
        IF node.operator = KW_NOT
        THEN KW_NOT \o <<" ">> \o expression_to_string(node.argument)
        ELSE <<"(">> \o node.operator \o expression_to_string(node.argument)
             \o <<")">>
    ELSE IF node.callee = CALLEE_INPUT THEN
        KW_INPUT \o <<"(">>
        \o (IF node.arguments = <<>> THEN <<>>
            ELSE expression_to_string(node.arguments[1]))
        \o <<")">>
    ELSE node.callee \o <<"(">>
         \o JoinWith([k \in 1..Len(node.arguments) |->
                         expression_to_string(node.arguments[k])],
                     <<",", " ">>)
         \o <<")">>

-----------------------------------------------------------------------------
(* generation/rapcode_generator.py: RapcodeGenerator *)

\* str.splitlines for the line breaks \n, \r and \r\n.
RECURSIVE SplitLinesFrom(_, _)
SplitLinesFrom(s, i) ==
    IF i > Len(s) THEN <<>>
    ELSE LET j == SpanEnd(s, i, Chars \ {"\n", "\r"})
             next == IF j + 1 <= Len(s) /\ s[j] = "\r" /\ s[j + 1] = "\n"
                     THEN j + 2 ELSE j + 1
         IN  <<SubSeq(s, i, j - 1)>> \o SplitLinesFrom(s, next)

SplitLines(s) == SplitLinesFrom(s, 1)

\* Mutant: one space for each level.
Indent_OneSpace(indent_level) == [k \in 1..indent_level |-> " "]

\* indent = "  " * indent_level
Indent(indent_level) == [k \in 1..(2 * indent_level) |-> " "]

\* Whether _generate_nodes returns for these statements (the expression
\* printer raises on an expression of unknown type).
RECURSIVE StatementsPrint(_)
StatementsPrint(ast_nodes) ==
    \A k \in 1..Len(ast_nodes) :
        LET node == ast_nodes[k]
        IN  IF node.type = "AssignmentStatement"
            THEN ExpressionPrints(node.left) /\ ExpressionPrints(node.right)
            ELSE IF node.type = "ExpressionStatement"
            THEN node.expression.callee = CALLEE_OUTPUT
                 => ExpressionPrints(node.expression.arguments[1])
            ELSE IF node.type = "IfStatement"
            THEN /\ ExpressionPrints(node.test)
                 /\ StatementsPrint(node.consequent.body)
                 /\ (node.alternate # None
                     => StatementsPrint(node.alternate.body))
            ELSE IF node.type = "WhileStatement"
            THEN ExpressionPrints(node.test) /\ StatementsPrint(node.body.body)
            ELSE TRUE

IsLiteralTrue(test) ==
    test.type = "Literal" /\ test.kind = "bool" /\ test.ival = 1

\* The code_lines of _generate_nodes.
RECURSIVE GenerateLines(_, _)
GenerateLines(ast_nodes, indent_level) ==
    IF ast_nodes = <<>> THEN <<>>
    ELSE
    LET node == Head(ast_nodes)
        indent == Indent(indent_level)
        Nested(body) ==
            SplitLines(JoinWith(GenerateLines(body, indent_level + 1),
                                <<"\n">>))
        lines ==
            IF node.type = "AssignmentStatement" THEN
                <<indent \o expression_to_string(node.left)
                  \o <<" ", ":", "=", " ">>
                  \o expression_to_string(node.right)>>
            ELSE IF node.type = "ExpressionStatement" THEN
                IF node.expression.callee = CALLEE_OUTPUT
                THEN <<indent \o KW_OUTPUT \o <<" ">>
                       \o expression_to_string(node.expression.arguments[1])>>
                ELSE <<>>
            ELSE IF node.type = "IfStatement" THEN
                LET consequent == node.consequent.body
                    alternate == IF node.alternate # None
                                 THEN node.alternate.body ELSE <<>>
                IN  <<indent \o KW_IF \o <<" ">>
                      \o expression_to_string(node.test) \o <<" ">>
                      \o KW_THEN>>
                    \o Nested(consequent)
                    \o (IF alternate # <<>>
                        THEN <<indent \o KW_ELSE>> \o Nested(alternate)
                        ELSE <<>>)
                    \o <<indent \o KW_ENDIF>>
            ELSE IF node.type = "WhileStatement" THEN
                (IF IsLiteralTrue(node.test)
                 THEN <<indent \o KW_LOOP>>
                 ELSE <<indent \o KW_WHILE \o <<" ">>
                        \o expression_to_string(node.test) \o <<" ">>
                        \o KW_DO>>)
                \o Nested(node.body.body)
                \o <<indent \o KW_ENDLOOP>>
            ELSE IF node.type = "BreakStatement" THEN <<indent \o KW_BREAK>>
            ELSE <<>>
    IN  lines \o GenerateLines(Tail(ast_nodes), indent_level)

generate_nodes(ast_nodes, indent_level) ==
    JoinWith(GenerateLines(ast_nodes, indent_level), <<"\n">>)

\* RapcodeGenerator.generate: the text, or GenerationError.
RapcodeGenerator_generate(program) ==
    IF StatementsPrint(program.body)
    THEN [ok |-> TRUE, text |-> generate_nodes(program.body, 0)]
    ELSE [ok |-> FALSE, text |-> <<>>]

-----------------------------------------------------------------------------
(* generation/base_generator.py, mermaid_generator.py, graphviz_generator.py:
   AstVisualizer and its two subclasses *)

NoNode == -1

\* The characters of the type names the walker may print in a label.
TypeChars(t) ==
    IF t = "ExpressionStatement"
    THEN <<"E", "x", "p", "r", "e", "s", "s", "i", "o", "n", "S", "t", "a",
           "t", "e", "m", "e", "n", "t">>
    ELSE IF t = "ForStatement"
    THEN <<"F", "o", "r", "S", "t", "a", "t", "e", "m", "e", "n", "t">>
    ELSE <<"?">>

L_True == <<"T", "r", "u", "e">>
L_False == <<"F", "a", "l", "s", "e">>
L_Start == <<"S", "t", "a", "r", "t">>
L_End == <<"E", "n", "d">>
L_Blank == <<" ">>

\* The keys of the `shapes` table of MermaidGenerator._add_node.
MermaidShapes == {"box", "parallelogram", "diamond", "point", "start", "ellipse"}

\* The label escaping of the two _add_node methods.
EscapeLabel(target, label) ==
    Flatten([k \in 1..Len(label) |->
        IF target = "mermaid"
        THEN (IF label[k] = "\"" THEN <<"#", "q", "u", "o", "t", ";">>
              ELSE <<label[k]>>)
        ELSE (IF label[k] = "\\" THEN <<"\\", "\\">>
              ELSE IF label[k] = "\"" THEN <<"\\", "\"">>
              ELSE IF label[k] = "\n" THEN <<"\\", "n">>
              ELSE <<label[k]>>)])

\* AstVisualizer.__init__ of a MermaidGenerator or GraphvizGenerator; `items`
\* is the text of the current generate call, one record per emitted line.
NewVisualizer(target) ==
    [target |-> target, node_count |-> 0, loop_exit_stack |-> <<>>,
     items |-> <<>>, err |-> "none"]

\* _add_node: the id is built from node_count, which is then incremented.
\* Once an exception is raised (err), nothing more of the call runs.
AddNode(st, label, shape) ==
    IF st.err # "none" THEN [st |-> st, id |-> NoNode]
    ELSE IF st.target = "mermaid" /\ shape \notin MermaidShapes
    THEN [st |-> [st EXCEPT !.node_count = @ + 1, !.err = "KeyError"],
          id |-> NoNode]
    ELSE [st |-> [st EXCEPT
                    !.node_count = @ + 1,
                    !.items = Append(@, [kind |-> "node",
                                         id |-> st.node_count,
                                         shape |-> shape,
                                         label |-> EscapeLabel(st.target, label),
                                         from |-> NoNode, to |-> NoNode])],
          id |-> st.node_count]

AddEdge(st, from_node, to_node, label) ==
    IF st.err # "none" \/ from_node = NoNode \/ to_node = NoNode THEN st
    ELSE [st EXCEPT !.items = Append(@, [kind |-> "edge", id |-> NoNode,
                                         shape |-> "edge", label |-> label,
                                         from |-> from_node, to |-> to_node])]

PushExit(st, exit_node) ==
    IF st.err # "none" THEN st
    ELSE [st EXCEPT !.loop_exit_stack = Append(@, exit_node)]

PopExit(st) ==
    IF st.err # "none" THEN st
    ELSE [st EXCEPT !.loop_exit_stack = SubSeq(@, 1, Len(@) - 1)]

StartShape(st) == IF st.target = "mermaid" THEN "start" ELSE "ellipse"

\* _expr_to_str: "expr" when the expression printer raises.
ExprToStr(node) ==
    IF ExpressionPrints(node) THEN expression_to_string(node)
    ELSE <<"e", "x", "p", "r">>

Or(a, b) == IF a # NoNode THEN a ELSE b

\* The index of the first if-break statement of a loop body, 0 if none.
RECURSIVE IfBreakIndex(_, _)
IfBreakIndex(body, i) ==
    IF i > Len(body) THEN 0
    ELSE IF /\ body[i].type = "IfStatement"
            /\ body[i].consequent.body # <<>>
            /\ body[i].consequent.body[1].type = "BreakStatement"
            /\ body[i].alternate = None
         THEN i
    ELSE IfBreakIndex(body, i + 1)

\* A local of a method: the value is computed at the assignment, before the
\* rest of the method runs, and named in the rest.
Let(value, Rest(_)) == CASE {value} # {} -> Rest(value)

RECURSIVE GenerateFromNodes(_, _), GenerateAll(_, _), GenerateNode(_, _)
RECURSIVE LinkSequentially(_, _, _)

\* generated = [self._generate_node(node) for node in nodes]
GenerateAll(st, nodes) ==
    IF nodes = <<>> THEN [st |-> st, generated |-> <<>>]
    ELSE Let(GenerateNode(st, Head(nodes)), LAMBDA h :
         Let(GenerateAll(h.st, Tail(nodes)), LAMBDA t :
             [st |-> t.st,
              generated |-> <<[entry |-> h.entry, exit |-> h.exit]>>
                            \o t.generated]))

LinkSequentially(st, generated, i) ==
    IF i > Len(generated) - 1 THEN st
    ELSE LinkSequentially(
            IF generated[i].exit # NoNode /\ generated[i + 1].entry # NoNode
            THEN AddEdge(st, generated[i].exit, generated[i + 1].entry, <<>>)
            ELSE st,
            generated, i + 1)

GenerateFromNodes(st, nodes) ==
    IF nodes = <<>> THEN [st |-> st, entry |-> NoNode, exit |-> NoNode]
    ELSE Let(GenerateAll(st, nodes), LAMBDA g :
             [st |-> LinkSequentially(g.st, g.generated, 1),
              entry |-> g.generated[1].entry,
              exit |-> g.generated[Len(g.generated)].exit])

\* if exit_node: self._add_edge(exit_node, to_node)
LinkExit(st, exit_node, to_node) ==
    IF exit_node # NoNode THEN AddEdge(st, exit_node, to_node, <<>>) ELSE st

\* Mutant: the exit of the after-body is not linked back.
RaptorLoop_NoBackEdge(st, node, i) ==
    Let(AddNode(st, ExprToStr(node.body.body[i].test), "diamond"), LAMBDA c :
    Let(AddNode(c.st, L_Blank, "point"), LAMBDA x :
    Let(GenerateFromNodes(AddEdge(PushExit(x.st, x.id), c.id, x.id, L_True),
                          SubSeq(node.body.body, 1, i - 1)), LAMBDA b :
    Let(GenerateFromNodes(b.st, SubSeq(node.body.body, i + 1,
                                       Len(node.body.body))), LAMBDA a :
    Let(Or(b.entry, c.id), LAMBDA loop_entry :
    Let(LinkExit(a.st, b.exit, c.id), LAMBDA s2 :
    Let(AddEdge(s2, c.id, Or(a.entry, loop_entry), L_False), LAMBDA s3 :
        [st |-> PopExit(s3), entry |-> loop_entry, exit |-> x.id])))))))

\* _try_visualize_raptor_loop, once the if-break statement is found at i.
RaptorLoop(st, node, i) ==
    Let(AddNode(st, ExprToStr(node.body.body[i].test), "diamond"), LAMBDA c :
    Let(AddNode(c.st, L_Blank, "point"), LAMBDA x :
    Let(GenerateFromNodes(AddEdge(PushExit(x.st, x.id), c.id, x.id, L_True),
                          SubSeq(node.body.body, 1, i - 1)), LAMBDA b :
    Let(GenerateFromNodes(b.st, SubSeq(node.body.body, i + 1,
                                       Len(node.body.body))), LAMBDA a :
    Let(Or(b.entry, c.id), LAMBDA loop_entry :
    Let(LinkExit(a.st, b.exit, c.id), LAMBDA s2 :
    Let(AddEdge(s2, c.id, Or(a.entry, loop_entry), L_False), LAMBDA s3 :
        [st |-> PopExit(LinkExit(s3, a.exit, loop_entry)),
         entry |-> loop_entry, exit |-> x.id])))))))

\* Mutant: a break outside every loop is drawn as a point, nothing raised.
GenerateBreak_NoCheck(st) ==
    Let(AddNode(st, L_Blank, "point"), LAMBDA n :
        [st |-> AddEdge(n.st, n.id,
                        IF st.loop_exit_stack = <<>> THEN NoNode
                        ELSE st.loop_exit_stack[Len(st.loop_exit_stack)],
                        <<>>),
         entry |-> n.id, exit |-> NoNode])

\* Mutant: the edge of a break goes to the exit of the outermost loop.
GenerateBreak_Outermost(st) ==
    IF st.err = "none" /\ st.loop_exit_stack = <<>>
    THEN [st |-> [st EXCEPT !.err = "GenerationError"],
          entry |-> NoNode, exit |-> NoNode]
    ELSE Let(AddNode(st, L_Blank, "point"), LAMBDA n :
             [st |-> AddEdge(n.st, n.id,
                             IF st.loop_exit_stack = <<>> THEN NoNode
                             ELSE st.loop_exit_stack[1],
                             <<>>),
              entry |-> n.id, exit |-> NoNode])

\* _generate_node, BreakStatement: GenerationError outside every loop,
\* otherwise a point with an edge to the exit of the innermost loop.
GenerateBreak(st) ==
    IF st.err = "none" /\ st.loop_exit_stack = <<>>
    THEN [st |-> [st EXCEPT !.err = "GenerationError"],
          entry |-> NoNode, exit |-> NoNode]
    ELSE Let(AddNode(st, L_Blank, "point"), LAMBDA n :
             [st |-> AddEdge(n.st, n.id,
                             IF st.loop_exit_stack = <<>> THEN NoNode
                             ELSE st.loop_exit_stack[Len(st.loop_exit_stack)],
                             <<>>),
              entry |-> n.id, exit |-> NoNode])

\* _generate_node, IfStatement.
GenerateIf(st, node) ==
    Let(AddNode(st, ExprToStr(node.test), "diamond"), LAMBDA c :
    Let(AddNode(c.st, L_Blank, "point"), LAMBDA m :
    Let(GenerateFromNodes(m.st, node.consequent.body), LAMBDA t :
    Let(AddEdge(t.st, c.id, Or(t.entry, m.id), L_True), LAMBDA s1 :
    Let(GenerateFromNodes(LinkExit(s1, t.exit, m.id),
                          IF node.alternate # None THEN node.alternate.body
                          ELSE <<>>), LAMBDA f :
    Let(AddEdge(f.st, c.id, Or(f.entry, m.id), L_False), LAMBDA s3 :
        [st |-> LinkExit(s3, f.exit, m.id),
         entry |-> c.id, exit |-> m.id]))))))

\* _generate_node, WhileStatement that is no mid-test loop.
GenerateWhile(st, node) ==
    Let(AddNode(st, ExprToStr(node.test), "diamond"), LAMBDA c :
    Let(AddNode(c.st, L_Blank, "point"), LAMBDA x :
    Let(GenerateFromNodes(PushExit(x.st, x.id), node.body.body), LAMBDA b :
    Let(AddEdge(b.st, c.id, Or(b.entry, c.id), L_True), LAMBDA s1 :
        [st |-> AddEdge(PopExit(LinkExit(s1, b.exit, c.id)), c.id, x.id,
                        L_False),
         entry |-> c.id, exit |-> x.id]))))

\* A statement drawn as one node.
SingleNode(n) == [st |-> n.st, entry |-> n.id, exit |-> n.id]

GenerateNode(st, node) ==
    IF node.type = "AssignmentStatement" THEN
        SingleNode(AddNode(st, ExprToStr(node.left) \o <<" ", ":", "=", " ">>
                               \o ExprToStr(node.right), "box"))
    ELSE IF /\ node.type = "ExpressionStatement"
            /\ node.expression.callee = CALLEE_OUTPUT THEN
        SingleNode(AddNode(st, KW_OUTPUT \o <<":", " ">>
                               \o ExprToStr(node.expression.arguments[1]),
                           "parallelogram"))
    ELSE IF node.type = "BreakStatement" THEN GenerateBreak(st)
    ELSE IF node.type = "IfStatement" THEN GenerateIf(st, node)
    ELSE IF node.type = "WhileStatement" THEN
        IF IsLiteralTrue(node.test) /\ IfBreakIndex(node.body.body, 1) # 0
        THEN RaptorLoop(st, node, IfBreakIndex(node.body.body, 1))
        ELSE GenerateWhile(st, node)
    ELSE
        SingleNode(AddNode(st, <<"U", "n", "k", "n", "o", "w", "n", " ", "N",
                                 "o", "d", "e", ":", "\n">>
                               \o TypeChars(node.type), "octagon"))

\* MermaidGenerator.generate / GraphvizGenerator.generate on instance g:
\* the instance after the call.  The text of the call starts empty;
\* node_count and loop_exit_stack are whatever the instance holds.
Visualizer_generate(g, program) ==
    Let(AddNode([g EXCEPT !.items = <<>>, !.err = "none"], L_Start,
                StartShape(g)), LAMBDA s :
    Let(GenerateFromNodes(s.st, program.body), LAMBDA b :
    Let(AddNode(IF b.entry # NoNode THEN AddEdge(b.st, s.id, b.entry, <<>>)
                ELSE b.st, L_End, StartShape(g)), LAMBDA e :
        AddEdge(e.st, Or(b.exit, s.id), e.id, <<>>))))

\* The text a generate call returns: Mermaid prints the node lines and then
\* the edge lines, Graphviz prints the lines in the order of emission.
GeneratedText(g) ==
    IF g.target = "mermaid"
    THEN SelectSeq(g.items, LAMBDA it : it.kind = "node")
         \o SelectSeq(g.items, LAMBDA it : it.kind = "edge")
    ELSE g.items

-----------------------------------------------------------------------------
(* parsing/raptor_xml_parser.py: RaptorXMLParser on the element tree *)

\* A component element of the flowchart.  `type` is what _get_node_type
\* gives, `nil` the i:nil attribute, text / is_input / prompt the texts of
\* a:_text_str, a:_is_input and a:_prompt ('' when absent).  Each child
\* field holds what _find_actual_component finds in the container: a
\* sequence of one component, or the empty sequence for None.
Component(type, text_str) ==
    [type |-> type, nil |-> FALSE, text |-> text_str, is_input |-> <<>>,
     prompt |-> <<>>, left |-> <<>>, right |-> <<>>, before |-> <<>>,
     after |-> <<>>, succ |-> <<>>]

UpperLetters ==
    <<"A", "B", "C", "D", "E", "F", "G", "H", "I", "J", "K", "L", "M", "N",
      "O", "P", "Q", "R", "S", "T", "U", "V", "W", "X", "Y", "Z">>
LowerLetters ==
    <<"a", "b", "c", "d", "e", "f", "g", "h", "i", "j", "k", "l", "m", "n",
      "o", "p", "q", "r", "s", "t", "u", "v", "w", "x", "y", "z">>

\* str.lower()
ToLower(s) ==
    [k \in 1..Len(s) |->
        IF s[k] \in Upper
        THEN LowerLetters[CHOOSE n \in 1..Len(UpperLetters) :
                              UpperLetters[n] = s[k]]
        ELSE s[k]]

\* str.strip()
RECURSIVE StripEnd(_)
StripEnd(s) ==
    IF s # <<>> /\ s[Len(s)] \in Whitespace
    THEN StripEnd(SubSeq(s, 1, Len(s) - 1)) ELSE s
Strip(s) == StripEnd(SubSeq(s, SpanEnd(s, 1, Whitespace), Len(s)))

\* str.replace(old, new): the occurrences of old from left to right, none
\* overlapping another.
RECURSIVE ReplaceFrom(_, _, _, _)
ReplaceFrom(s, i, old, new) ==
    IF i > Len(s) THEN <<>>
    ELSE IF i + Len(old) - 1 <= Len(s) /\ SubSeq(s, i, i + Len(old) - 1) = old
         THEN new \o ReplaceFrom(s, i + Len(old), old, new)
    ELSE <<s[i]>> \o ReplaceFrom(s, i + 1, old, new)
Replace(s, old, new) == ReplaceFrom(s, 1, old, new)

\* Every '=' doubled, whatever stands next to it.
DoubleEquals_Every(s) ==
    Flatten([k \in 1..Len(s) |->
        IF s[k] = "=" THEN <<"=", "=">> ELSE <<s[k]>>])

\* re.sub(r'(?<![:!<>=])=(?!=)', '==', s): an '=' that has none of : ! < > =
\* before it and no '=' after it is doubled.
DoubleEquals(s) ==
    Flatten([k \in 1..Len(s) |->
        IF /\ s[k] = "="
           /\ ~(k > 1 /\ s[k - 1] \in {":", "!", "<", ">", "="})
           /\ ~(k < Len(s) /\ s[k + 1] = "=")
        THEN <<"=", "=">> ELSE <<s[k]>>])

\* _parse_expression, step 1: Raptor syntax mapped to Rapcode syntax.
Preprocess(expr_str) ==
    Replace(
      DoubleEquals(
        Replace(
          Replace(
            Replace(
              Replace(expr_str, <<" ", "m", "o", "d", " ">>,
                      <<" ">> \o KW_MOD \o <<" ">>),
              <<" ", "a", "n", "d", " ">>, <<" ">> \o KW_AND \o <<" ">>),
            <<" ", "o", "r", " ">>, <<" ">> \o KW_OR \o <<" ">>),
          <<" ", "n", "o", "t", " ">>, <<" ">> \o KW_NOT \o <<" ">>)),
      <<"<", ">">>, <<"!", "=">>)

\* Every exception below _parse_raptor_node reaches the caller as a
\* ParsingError.
XmlError == Raise("XmlParsingError")
Wrapped(r) == IF r.ok THEN r ELSE XmlError

\* _parse_expression
XmlExpression(expr_str) ==
    IF expr_str = <<>> THEN XmlError
    ELSE Wrapped(ExpressionParser_parse(Tokenize(Preprocess(expr_str))))

\* The index of the first ":=" of a text, 0 if there is none.
AssignIndex(s) ==
    IF \E i \in 1..(Len(s) - 1) : s[i] = ":" /\ s[i + 1] = "="
    THEN CHOOSE i \in 1..(Len(s) - 1) :
            /\ s[i] = ":" /\ s[i + 1] = "="
            /\ \A j \in 1..(i - 1) : ~(s[j] = ":" /\ s[j + 1] = "=")
    ELSE 0

\* The statements a component yields, as a parse result whose node is the
\* list of statements.
Statements(list) == Ok(list, 0)

RectangleResult(l, r) ==
    IF ~l.ok THEN l
    ELSE IF ~r.ok THEN r
    ELSE Statements(<<create_assignment_statement(l.node, r.node)>>)

\* prompt_text[1:-1] when the prompt is quoted
Unquote(s) ==
    IF StartsWith(s, "\"") /\ EndsWith(s, "\"")
    THEN SubSeq(s, 2, Len(s) - 1) ELSE s

XmlOutputResult(a) ==
    IF ~a.ok THEN a ELSE Statements(<<create_output_statement(a.node)>>)

\* alternate_body if alternate_body else None
IfControlResult(test, consequent_body, alternate_body) ==
    IF ~consequent_body.ok THEN consequent_body
    ELSE IF ~alternate_body.ok THEN alternate_body
    ELSE IF ~test.ok THEN test
    ELSE Statements(<<create_if_statement(test.node, consequent_body.node,
                        IF alternate_body.node # <<>>
                        THEN List(alternate_body.node) ELSE None)>>)

\* Mutant: the statements after the exit test are placed before it.
LoopResult_AfterFirst(test, before_body, after_body) ==
    IF ~before_body.ok THEN before_body
    ELSE IF ~after_body.ok THEN after_body
    ELSE IF ~test.ok THEN test
    ELSE Statements(<<create_while_statement(BoolLiteral(TRUE),
            after_body.node
            \o <<create_if_statement(test.node, <<create_break_statement>>,
                                     None)>>
            \o before_body.node)>>)

\* The mid-test loop: While(True) with an If(test) { Break } inside.
LoopResult(test, before_body, after_body) ==
    IF ~before_body.ok THEN before_body
    ELSE IF ~after_body.ok THEN after_body
    ELSE IF ~test.ok THEN test
    ELSE Statements(<<create_while_statement(BoolLiteral(TRUE),
            before_body.node
            \o <<create_if_statement(test.node, <<create_break_statement>>,
                                     None)>>
            \o after_body.node)>>)

\* Mutant: the statements of the successor chain come first.
Extend_SuccessorFirst(current, successor) ==
    IF ~current.ok THEN current
    ELSE IF ~successor.ok THEN successor
    ELSE Statements(successor.node \o current.node)

\* ast_nodes.extend(self._parse_raptor_node(successor_node))
Extend(current, successor) ==
    IF ~current.ok THEN current
    ELSE IF ~successor.ok THEN successor
    ELSE Statements(current.node \o successor.node)

RECURSIVE ParseRaptorNode(_), CurrentNode(_)

\* The try block of _parse_raptor_node: the statement of this component.
CurrentNode(x) ==
    IF x.type = "Rectangle" THEN
        IF AssignIndex(x.text) # 0
        THEN Wrapped(RectangleResult(
                XmlExpression(Strip(SubSeq(x.text, 1, AssignIndex(x.text) - 1))),
                XmlExpression(Strip(SubSeq(x.text, AssignIndex(x.text) + 2,
                                           Len(x.text))))))
        ELSE Statements(<<>>)
    ELSE IF x.type = "Parallelogram" THEN
        IF ToLower(x.is_input) = <<"t", "r", "u", "e">>
        THEN Statements(<<create_assignment_statement(
                            create_identifier(Strip(x.text)),
                            create_input_expression(
                                create_literal(Unquote(Strip(x.prompt)))))>>)
        ELSE Wrapped(XmlOutputResult(XmlExpression(Strip(x.text))))
    ELSE IF x.type = "IF_Control" THEN
        Wrapped(IfControlResult(XmlExpression(x.text),
                                ParseRaptorNode(x.left),
                                ParseRaptorNode(x.right)))
    ELSE IF x.type = "Loop" THEN
        Wrapped(LoopResult(XmlExpression(x.text),
                           ParseRaptorNode(x.before),
                           ParseRaptorNode(x.after)))
    ELSE Statements(<<>>)

\* _parse_raptor_node on what _find_actual_component found.
ParseRaptorNode(found) ==
    IF found = <<>> THEN Statements(<<>>)
    ELSE IF found[1].nil THEN Statements(<<>>)
    ELSE Extend(CurrentNode(found[1]),
                IF found[1].succ # <<>> THEN ParseRaptorNode(found[1].succ)
                ELSE Statements(<<>>))

XmlProgramResult(body) ==
    IF ~body.ok THEN body ELSE Ok(create_program(body.node), 0)

\* RaptorXMLParser.parse on a document: has_start says whether an a:Start
\* element exists, first is the component in its successor container.
RaptorXMLParser_parse(document) ==
    IF ~document.has_start THEN Raise("NoStartNode")
    ELSE XmlProgramResult(ParseRaptorNode(document.first))

-----------------------------------------------------------------------------
(* The values the variables hold while a component is not in use *)

Idle ==
    /\ ast = None
    /\ text = <<>>
    /\ tokens = <<>>
    /\ result = None
    /\ xml = None
    /\ gen = None
    /\ outputs = <<>>
    /\ edits = <<>>

-----------------------------------------------------------------------------
(* ExpressionParser on token lists *)

MaxChainOps == 3        \* operators in a plain chain  a op b op c ...
MaxDecoratedOps == 2    \* operators in a chain with parentheses or prefixes
MaxTokens == 2          \* length of the arbitrary token lists

BinaryOps ==
    {KW_OR, KW_AND} \cup ComparisonOps \cup AdditiveOps \cup MultiplicativeOps

OperandNames == <<"a", "b", "c", "d", "e", "f", "g", "h">>

\* The ways a chain is decorated: nothing; one pair of parentheses around
\* operands i..j; prefix operators before one operand; one prefix operator
\* before or just inside an opening parenthesis.
PrefixRuns ==
    {<<u>> : u \in UnaryOps} \cup {<<u, v>> : u \in UnaryOps, v \in UnaryOps}
NoDecoration == [open |-> 0, close |-> 0, at |-> 0, prefix |-> <<>>,
                 inside |-> FALSE]
Decorations(n) ==
    {NoDecoration}
    \cup {[open |-> i, close |-> j, at |-> 0, prefix |-> <<>>,
           inside |-> FALSE] : i \in 1..n, j \in 1..n}
    \cup {[open |-> 0, close |-> 0, at |-> m, prefix |-> p, inside |-> FALSE]
            : m \in 1..n, p \in PrefixRuns}
    \cup {[open |-> i, close |-> j, at |-> i, prefix |-> <<u>>, inside |-> b]
            : i \in 1..n, j \in 1..n, u \in UnaryOps, b \in BOOLEAN}

\* The token list  x1 op1 x2 ... opk x(k+1)  with decoration d, whose
\* positions lie within the k + 1 operands.
ChainTokens(ops, d) ==
    LET n == Len(ops) + 1
        Piece(m) ==
            (IF d.at = m /\ ~d.inside THEN d.prefix ELSE <<>>)
            \o (IF d.open = m THEN <<T_LPAREN>> ELSE <<>>)
            \o (IF d.at = m /\ d.inside THEN d.prefix ELSE <<>>)
            \o <<<<OperandNames[m]>>>>
            \o (IF d.close = m THEN <<T_RPAREN>> ELSE <<>>)
            \o (IF m < n THEN <<ops[m]>> ELSE <<>>)
    IN  Flatten([m \in 1..n |-> Piece(m)])

OpSeqs(k) == UNION {[1..n -> BinaryOps] : n \in 0..k}

PlainChains == {ChainTokens(ops, NoDecoration) : ops \in OpSeqs(MaxChainOps)}
DecoratedChains ==
    {ChainTokens(q[1], q[2]) :
        q \in {p \in OpSeqs(MaxDecoratedOps)
                        \X Decorations(MaxDecoratedOps + 1) :
                  /\ p[2].open <= p[2].close
                  /\ p[2].close <= Len(p[1]) + 1
                  /\ p[2].at <= Len(p[1]) + 1}}

ExprAlphabet ==
    BinaryOps \cup UnaryOps
    \cup {T_LPAREN, T_RPAREN, KW_INPUT, KW_TRUE, KW_FALSE, KW_THEN, NEWLINE,
          <<"a">>, <<"_", "b">>, <<"1">>, <<"2", ".", "5", "0">>,
          <<"\"", "s", "\"">>, <<"^">>}
ShortLists == UNION {[1..n -> ExprAlphabet] : n \in 0..MaxTokens}

ExprInputs == PlainChains \cup DecoratedChains \cup ShortLists

InitExpr ==
    /\ phase = "tokens"
    /\ tokens \in ExprInputs
    /\ ast = None /\ text = <<>> /\ result = None /\ xml = None
    /\ gen = None /\ outputs = <<>> /\ edits = <<>>

\* ExpressionParser(tokens).parse()
ParseExpr ==
    /\ phase = "tokens"
    /\ result' = ExpressionParser_parse(tokens)
    /\ phase' = "parsed"
    /\ UNCHANGED <<ast, text, tokens, xml, gen, outputs, edits>>

NextExpr == ParseExpr

SpecExpr == InitExpr /\ [][NextExpr]_vars

-----------------------------------------------------------------------------
(* Programs: the ASTs handed to the generators *)

MaxStmts == 2           \* statement nodes of a program

Id(c) == create_identifier(<<c>>)
Str(c) == create_literal(<<"\"", c, "\"">>)

AssignX == create_assignment_statement(Id("x"),
               create_binary_expression(<<"+">>, Id("a"), IntLiteral(1)))
OutputP == create_output_statement(Str("p"))
OutputN == create_output_statement(Str("n"))
Leaves == {AssignX, OutputP, create_break_statement}
IfTests == {create_binary_expression(<<">">>, Id("a"), IntLiteral(0))}
WhileTests == {BoolLiteral(TRUE), create_unary_expression(KW_NOT, Id("a"))}

\* The statements, and the blocks, of exactly n statement nodes.
RECURSIVE StmtsOfSize(_), BlocksOfSize(_)
StmtsOfSize(n) ==
    IF n = 0 THEN {}
    ELSE (IF n = 1 THEN Leaves ELSE {})
         \cup {create_if_statement(t, c, None) :
                 t \in IfTests, c \in BlocksOfSize(n - 1)}
         \cup UNION {{create_if_statement(t, c, List(a)) :
                        t \in IfTests, c \in BlocksOfSize(i),
                        a \in BlocksOfSize(n - 1 - i)} : i \in 0..(n - 1)}
         \cup {create_while_statement(t, b) :
                 t \in WhileTests, b \in BlocksOfSize(n - 1)}
BlocksOfSize(n) ==
    IF n = 0 THEN {<<>>}
    ELSE UNION {{<<st>> \o b : st \in StmtsOfSize(k),
                               b \in BlocksOfSize(n - k)} : k \in 1..n}

\* S2: the mid-test loop  LOOP / IF (x == 10) THEN BREAK ENDIF / x := (x + 1).
S2Program ==
    create_program(<<create_while_statement(BoolLiteral(TRUE),
        <<create_if_statement(
              create_binary_expression(<<"=", "=">>, Id("x"), IntLiteral(10)),
              <<create_break_statement>>, None),
          create_assignment_statement(Id("x"),
              create_binary_expression(<<"+">>, Id("x"), IntLiteral(1)))>>)>>)
\* S4 and S5 as ASTs.
S4Program ==
    create_program(<<create_if_statement(
        create_binary_expression(<<">">>, Id("a"), IntLiteral(0)),
        <<OutputP>>, List(<<OutputN>>))>>)
S5Program ==
    create_program(<<create_assignment_statement(Id("x"),
        create_input_expression(Str("?")))>>)
\* A break two IfStatements below its loop, and one below an IfStatement
\* that no loop encloses.
NestedBreakProgram ==
    create_program(<<create_while_statement(
        create_unary_expression(KW_NOT, Id("a")),
        <<create_if_statement(Id("a"),
            <<create_if_statement(Id("b"), <<create_break_statement>>,
                                  List(<<OutputP>>))>>, None)>>)>>)
StrayBreakProgram ==
    create_program(<<create_while_statement(BoolLiteral(TRUE), <<AssignX>>),
                     create_if_statement(Id("a"), <<create_break_statement>>,
                                         None)>>)

\* Statements the generators have no case for: a node of another type, and
\* an ExpressionStatement whose call is not Output.
ForStatement == [type |-> "ForStatement"]
InputStatement ==
    [type |-> "ExpressionStatement",
     expression |-> create_input_expression(Str("?"))]
UnknownKindProgram == create_program(<<AssignX, ForStatement>>)
NestedUnknownProgram ==
    create_program(<<create_while_statement(
        create_unary_expression(KW_NOT, Id("a")), <<ForStatement>>)>>)
CallStatementProgram == create_program(<<InputStatement>>)
UnknownPrograms ==
    {UnknownKindProgram, NestedUnknownProgram, CallStatementProgram}

\* Mid-test loops with more after the exit test: a loop and an IfStatement,
\* and an after-body that ends with a break.
MidTestNestedProgram ==
    create_program(<<create_while_statement(BoolLiteral(TRUE),
        <<create_if_statement(Id("a"), <<create_break_statement>>, None),
          create_while_statement(create_unary_expression(KW_NOT, Id("a")),
                                 <<AssignX>>),
          create_if_statement(Id("b"), <<OutputP>>, None)>>)>>)
MidTestBreakProgram ==
    create_program(<<create_while_statement(BoolLiteral(TRUE),
        <<create_if_statement(Id("a"), <<create_break_statement>>, None),
          OutputP, create_break_statement>>)>>)
MidTestPrograms == {MidTestNestedProgram, MidTestBreakProgram}

\* Loops on literal true whose if-break is not the plain one: a statement
\* after the break, an ELSE with nothing in it, a break that is not the first
\* statement of its IfStatement before a plain if-break, and two plain ones.
BreakThenMoreProgram ==
    create_program(<<create_while_statement(BoolLiteral(TRUE),
        <<create_if_statement(Id("a"), <<create_break_statement, AssignX>>,
                              None)>>)>>)
EmptyElseProgram ==
    create_program(<<create_while_statement(BoolLiteral(TRUE),
        <<create_if_statement(Id("a"), <<create_break_statement>>,
                              List(<<>>))>>)>>)
SecondIfBreakProgram ==
    create_program(<<create_while_statement(BoolLiteral(TRUE),
        <<create_if_statement(Id("a"), <<AssignX, create_break_statement>>,
                              None),
          create_if_statement(Id("b"), <<create_break_statement>>, None),
          OutputP>>)>>)
TwoIfBreakProgram ==
    create_program(<<create_while_statement(BoolLiteral(TRUE),
        <<create_if_statement(Id("a"), <<create_break_statement>>, None),
          create_if_statement(Id("b"), <<create_break_statement>>, None)>>)>>)
ElseBreakProgram ==
    create_program(<<create_while_statement(BoolLiteral(TRUE),
        <<create_if_statement(Id("a"), <<create_break_statement>>,
                              List(<<OutputP>>))>>)>>)
DetectionPrograms ==
    {BreakThenMoreProgram, EmptyElseProgram, SecondIfBreakProgram,
     TwoIfBreakProgram, ElseBreakProgram}

\* Breaks of an inner and of an outer loop, in the standard form and
\* inside a mid-test loop, and a break with a statement after it.
InnerBreakProgram ==
    create_program(<<create_while_statement(
        create_unary_expression(KW_NOT, Id("a")),
        <<create_while_statement(create_unary_expression(KW_NOT, Id("a")),
              <<create_if_statement(Id("a"), <<create_break_statement>>,
                                    None)>>),
          create_if_statement(Id("b"), <<create_break_statement>>, None)>>)>>)
MidTestInnerBreakProgram ==
    create_program(<<create_while_statement(BoolLiteral(TRUE),
        <<create_if_statement(Id("a"), <<create_break_statement>>, None),
          create_while_statement(BoolLiteral(TRUE),
              <<create_if_statement(Id("b"),
                    <<OutputP, create_break_statement>>, None)>>),
          create_break_statement>>)>>)
BreakSequenceProgram ==
    create_program(<<create_while_statement(
        create_unary_expression(KW_NOT, Id("a")),
        <<create_break_statement, AssignX>>), OutputP>>)
BreakPrograms ==
    {InnerBreakProgram, MidTestInnerBreakProgram, BreakSequenceProgram}

ScenarioPrograms ==
    {S2Program, S4Program, S5Program, NestedBreakProgram, StrayBreakProgram}
    \cup UnknownPrograms \cup MidTestPrograms \cup DetectionPrograms
    \cup BreakPrograms

Programs ==
    {create_program(b) : b \in UNION {BlocksOfSize(n) : n \in 0..MaxStmts}}
    \cup ScenarioPrograms

-----------------------------------------------------------------------------
(* RapcodeGenerator and RapcodeParser on program texts *)

\* S4, S5 and S6 as written in the specification.
S4Text ==
    <<"I", "F", " ", "(", "a", " ", ">", " ", "0", ")", " ", "T", "H", "E",
      "N", " ", "O", "U", "T", "P", "U", "T", " ", "\"", "p", "\"", " ", "E",
      "L", "S", "E", " ", "O", "U", "T", "P", "U", "T", " ", "\"", "n", "\"",
      " ", "E", "N", "D", "I", "F">>
S5Text ==
    <<"x", " ", ":", "=", " ", "I", "N", "P", "U", "T", "(", "\"", "?", "\"",
      ")">>
S6OutputText == <<"O", "U", "T", "P", "U", "T">>
S6AssignText == <<"1", " ", ":", "=", " ", "2">>
ScenarioTexts == {S4Text, S5Text, S6OutputText, S6AssignText}

\* Statements whose expression is missing:  x :=   IF THEN   WHILE DO
AssignNothingText == <<"x", " ", ":", "=">>
IfNoTestText ==
    <<"I", "F", " ", "T", "H", "E", "N", "\n", "E", "N", "D", "I", "F">>
WhileNoTestText ==
    <<"W", "H", "I", "L", "E", " ", "D", "O", "\n", "E", "N", "D", "L", "O",
      "O", "P">>
NoExpressionTexts == {AssignNothingText, IfNoTestText, WhileNoTestText}

\* An expression that is no statement:  x + 1
BareExpressionText == <<"x", " ", "+", " ", "1">>

\* A string literal that spans two lines:  OUTPUT "a
\*                                                  b"
TwoLineStringText ==
    <<"O", "U", "T", "P", "U", "T", " ", "\"", "a", "\n", "b", "\"">>

\* Calls at the places of a statement and of an expression:
\*   INPUT("?")   OUTPUT INPUT("?")   x := INPUT("?") + 1   x := INPUT()
\*   x := INPUT(1, 2)   OUTPUT(1)   x := OUTPUT(1)   OUTPUT OUTPUT 1
InputStatementText ==
    <<"I", "N", "P", "U", "T", "(", "\"", "?", "\"", ")">>
OutputInputText ==
    <<"O", "U", "T", "P", "U", "T", " ", "I", "N", "P", "U", "T", "(",
      "\"", "?", "\"", ")">>
InputSumText ==
    <<"x", " ", ":", "=", " ", "I", "N", "P", "U", "T", "(", "\"",
      "?", "\"", ")", " ", "+", " ", "1">>
InputNoArgumentText ==
    <<"x", " ", ":", "=", " ", "I", "N", "P", "U", "T", "(", ")">>
InputTwoArgumentsText ==
    <<"x", " ", ":", "=", " ", "I", "N", "P", "U", "T", "(", "1", ",",
      " ", "2", ")">>
OutputParenText ==
    <<"O", "U", "T", "P", "U", "T", "(", "1", ")">>
OutputValueText ==
    <<"x", " ", ":", "=", " ", "O", "U", "T", "P", "U", "T", "(", "1",
      ")">>
OutputOutputText ==
    <<"O", "U", "T", "P", "U", "T", " ", "O", "U", "T", "P", "U", "T",
      " ", "1">>
CallTexts ==
    {InputStatementText,
     OutputInputText,
     InputSumText,
     InputNoArgumentText,
     InputTwoArgumentsText,
     OutputParenText,
     OutputValueText,
     OutputOutputText}

\* Names with an underscore:   _x := 1   x_1 := 1   OUTPUT _x   x := _y
UnderscoreTargetText ==
    <<"_", "x", " ", ":", "=", " ", "1">>
UnderscoreInsideText ==
    <<"x", "_", "1", " ", ":", "=", " ", "1">>
UnderscoreOutputText ==
    <<"O", "U", "T", "P", "U", "T", " ", "_", "x">>
UnderscoreValueText ==
    <<"x", " ", ":", "=", " ", "_", "y">>
UnderscoreTexts ==
    {UnderscoreTargetText,
     UnderscoreInsideText,
     UnderscoreOutputText,
     UnderscoreValueText}

\* Blocks that are not closed and block words without their block:
\*   LOOP   WHILE a DO   IF a THEN   ELSE   THEN   x := 1 / ELSE
\*   IF a THEN / ENDLOOP / ENDIF
LoopOpenText ==
    <<"L", "O", "O", "P">>
WhileOpenText ==
    <<"W", "H", "I", "L", "E", " ", "a", " ", "D", "O">>
IfOpenText ==
    <<"I", "F", " ", "a", " ", "T", "H", "E", "N">>
StrayElseText ==
    <<"E", "L", "S", "E">>
StrayThenText ==
    <<"T", "H", "E", "N">>
AssignThenElseText ==
    <<"x", " ", ":", "=", " ", "1", "\n", "E", "L", "S", "E">>
EndLoopInIfText ==
    <<"I", "F", " ", "a", " ", "T", "H", "E", "N", "\n", "E", "N",
      "D", "L", "O", "O", "P", "\n", "E", "N", "D", "I", "F">>
DanglingTexts ==
    {LoopOpenText,
     WhileOpenText,
     IfOpenText,
     StrayElseText,
     StrayThenText,
     AssignThenElseText,
     EndLoopInIfText}

\* Reserved words at the place of a name:
\*   OUTPUT ELSE   OUTPUT ENDIF   OUTPUT MOD   x := THEN   x := BREAK
\*   IF := 1   TRUE := 1
OutputElseText ==
    <<"O", "U", "T", "P", "U", "T", " ", "E", "L", "S", "E">>
OutputEndIfText ==
    <<"O", "U", "T", "P", "U", "T", " ", "E", "N", "D", "I", "F">>
OutputModText ==
    <<"O", "U", "T", "P", "U", "T", " ", "M", "O", "D">>
AssignThenText ==
    <<"x", " ", ":", "=", " ", "T", "H", "E", "N">>
AssignBreakText ==
    <<"x", " ", ":", "=", " ", "B", "R", "E", "A", "K">>
IfTargetText ==
    <<"I", "F", " ", ":", "=", " ", "1">>
TrueTargetText ==
    <<"T", "R", "U", "E", " ", ":", "=", " ", "1">>
KeywordTexts ==
    {OutputElseText,
     OutputEndIfText,
     OutputModText,
     AssignThenText,
     AssignBreakText,
     IfTargetText,
     TrueTargetText}

WrittenTexts ==
    ScenarioTexts \cup NoExpressionTexts
    \cup {BareExpressionText, TwoLineStringText}
    \cup CallTexts \cup UnderscoreTexts \cup DanglingTexts \cup KeywordTexts

InitRapcode ==
    /\ \/ phase = "program" /\ ast \in Programs /\ text = <<>>
       \/ phase = "written" /\ ast = None /\ text \in WrittenTexts
    /\ tokens = <<>> /\ result = None /\ xml = None
    /\ gen = None /\ outputs = <<>> /\ edits = <<>>

\* RapcodeGenerator().generate(ast)
Generate ==
    /\ phase = "program"
    /\ RapcodeGenerator_generate(ast).ok
    /\ text' = RapcodeGenerator_generate(ast).text
    /\ phase' = "generated"
    /\ UNCHANGED <<ast, tokens, result, xml, gen, outputs, edits>>

NewlinePositions(s) == {i \in 1..Len(s) : s[i] = "\n"}

\* The generated text is cut after its first n lines: the file ends early.
TruncateLines ==
    /\ phase = "generated" /\ edits = <<>>
    /\ \E n \in 1..(Len(SplitLines(text)) - 1) :
        /\ text' = JoinWith(SubSeq(SplitLines(text), 1, n), <<"\n">>)
        /\ edits' = <<[kind |-> "truncate", at |-> n]>>
    /\ phase' = "edited"
    /\ UNCHANGED <<ast, tokens, result, xml, gen, outputs>>

\* A line break is typed into the generated text after i characters.
InsertNewline ==
    /\ phase = "generated" /\ edits = <<>>
    /\ \E i \in 0..Len(text) :
        /\ text' = SubSeq(text, 1, i) \o <<"\n">> \o SubSeq(text, i + 1, Len(text))
        /\ edits' = <<[kind |-> "newline", at |-> i]>>
    /\ phase' = "edited"
    /\ UNCHANGED <<ast, tokens, result, xml, gen, outputs>>

\* One line break of the generated text, or (at 0) every one, is replaced
\* by a space: statements share a line.
JoinLines ==
    /\ phase = "generated" /\ edits = <<>>
    /\ NewlinePositions(text) # {}
    /\ \E i \in NewlinePositions(text) \cup {0} :
        /\ text' = [k \in 1..Len(text) |->
                      IF text[k] = "\n" /\ (i = 0 \/ i = k) THEN " "
                      ELSE text[k]]
        /\ edits' = <<[kind |-> "join", at |-> i]>>
    /\ phase' = "edited"
    /\ UNCHANGED <<ast, tokens, result, xml, gen, outputs>>

\* The positions where a line of the text ends.
LineEnds(s) == {i \in 0..Len(s) : i = Len(s) \/ s[i + 1] = "\n"}

\* Line comments:  -- c  after a space, and  --c  directly after the line.
LineComments == {<<" ", "-", "-", " ", "c">>, <<"-", "-", "c">>}

\* A line comment is typed at the end of one line of the text.
AppendComment ==
    /\ phase \in {"generated", "written"} /\ edits = <<>>
    /\ \E i \in LineEnds(text), c \in LineComments :
        /\ text' = SubSeq(text, 1, i) \o c \o SubSeq(text, i + 1, Len(text))
        /\ edits' = <<[kind |-> "comment", at |-> i]>>
    /\ phase' = "edited"
    /\ UNCHANGED <<ast, tokens, result, xml, gen, outputs>>

\* RapcodeParser().parse(text)
Parse ==
    /\ phase \in {"generated", "edited", "written"}
    /\ result' = RapcodeParser_parse(text)
    /\ phase' = "parsed"
    /\ UNCHANGED <<ast, text, tokens, xml, gen, outputs, edits>>

NextRapcode ==
    \/ Generate
    \/ TruncateLines
    \/ InsertNewline
    \/ JoinLines
    \/ AppendComment
    \/ Parse

SpecRapcode == InitRapcode /\ [][NextRapcode]_vars

-----------------------------------------------------------------------------
(* MermaidGenerator and GraphvizGenerator: generate calls on an instance *)

MaxCalls == 2           \* generate calls on one program

Targets == {"mermaid", "graphviz"}

\* What a generate call gives its caller: the text, or the exception.
CallOutcome(g) == [err |-> g.err, text |-> GeneratedText(g)]

InitDiagram ==
    /\ phase = "constructed"
    /\ ast \in Programs
    /\ gen \in {NewVisualizer(target) : target \in Targets}
    /\ text = <<>> /\ tokens = <<>> /\ result = None /\ xml = None
    /\ outputs = <<>> /\ edits = <<>>

\* generator.generate(ast) on the instance at hand.
GenerateDiagram ==
    /\ Len(outputs) < MaxCalls
    /\ gen' = Visualizer_generate(gen, ast)
    /\ outputs' = Append(outputs, CallOutcome(gen'))
    /\ phase' = "generated"
    /\ UNCHANGED <<ast, text, tokens, result, xml, edits>>

\* A used instance is dropped and a new one of the class constructed.
NewInstance ==
    /\ phase = "generated"
    /\ gen' = NewVisualizer(gen.target)
    /\ phase' = "constructed"
    /\ UNCHANGED <<ast, text, tokens, result, xml, outputs, edits>>

NextDiagram ==
    \/ GenerateDiagram
    \/ NewInstance

SpecDiagram == InitDiagram /\ [][NextDiagram]_vars

-----------------------------------------------------------------------------
(* One generator instance used for several programs *)

\* The caller hands the instance another program after a call, whether the
\* call returned or raised.
HandProgram ==
    /\ phase = "generated"
    /\ ast' \in ScenarioPrograms
    /\ phase' = "constructed"
    /\ UNCHANGED <<text, tokens, result, xml, gen, outputs, edits>>

InitReuse ==
    /\ phase = "constructed"
    /\ ast \in ScenarioPrograms
    /\ gen \in {NewVisualizer(target) : target \in Targets}
    /\ text = <<>> /\ tokens = <<>> /\ result = None /\ xml = None
    /\ outputs = <<>> /\ edits = <<>>

NextReuse ==
    \/ GenerateDiagram
    \/ HandProgram

SpecReuse == InitReuse /\ [][NextReuse]_vars

-----------------------------------------------------------------------------
(* RaptorXMLParser on flowchart documents *)

MaxComponents == 3      \* component elements of a document

RectangleAssign == Component("Rectangle", <<"x", ":", "=", "x", "+", "1">>)
RectangleNoValue == Component("Rectangle", <<"x", ":", "=">>)
RectangleLiteralTarget == Component("Rectangle", <<"1", ":", "=", "2">>)
ParallelogramOutput ==
    [Component("Parallelogram", <<"x">>) EXCEPT !.is_input = <<"f", "a", "l", "s", "e">>]
ParallelogramInput ==
    [Component("Parallelogram", <<"x">>) EXCEPT !.is_input = <<"T", "r", "u", "e">>,
                                           !.prompt = <<"\"", "?", "\"">>]
Oval == Component("Oval", <<>>)
NilComponent == [RectangleAssign EXCEPT !.nil = TRUE]

LeafComponents ==
    {RectangleAssign, RectangleNoValue, RectangleLiteralTarget,
     ParallelogramOutput, ParallelogramInput, Oval, NilComponent}
\* Exit conditions in Raptor syntax:  x=10  and  a<>b and c
LoopTexts == {<<"x", "=", "1", "0">>,
              <<"a", "<", ">", "b", " ", "a", "n", "d", " ", "c">>}
IfTexts == {<<"a">>}

\* A \cup B, with A put in order first so that B is merged into it by
\* bisection; CupOver is the union of F(lo), ..., F(hi).
Cup(A, B) == {x \in A : TRUE} \cup B
RECURSIVE CupOver(_, _, _)
CupOver(F(_), lo, hi) ==
    IF lo > hi THEN {} ELSE Cup(CupOver(F, lo, hi - 1), F(hi))

\* The successor chains of exactly n components, each as the content of a
\* container: one component, or nothing.
RECURSIVE ChainsOfSize(_)
ChainsOfSize(n) ==
    IF n = 0 THEN {<<>>}
    ELSE Cup({<<[l EXCEPT !.succ = s]>> :
                l \in LeafComponents, s \in ChainsOfSize(n - 1)},
             CupOver(LAMBDA i : CupOver(LAMBDA j :
                Cup({<<[Component("Loop", t) EXCEPT !.before = b,
                                                    !.after = a,
                                                    !.succ = s]>> :
                        t \in LoopTexts, b \in ChainsOfSize(i),
                        a \in ChainsOfSize(j),
                        s \in ChainsOfSize(n - 1 - i - j)},
                    {<<[Component("IF_Control", t) EXCEPT !.left = b,
                                                          !.right = a,
                                                          !.succ = s]>> :
                        t \in IfTexts, b \in ChainsOfSize(i),
                        a \in ChainsOfSize(j),
                        s \in ChainsOfSize(n - 1 - i - j)}),
                0, n - 1 - i), 0, n - 1))

\* A Rectangle without := (a procedure call) at the places of a chain: first,
\* between two statements, as the only component of a branch and of a loop
\* part.
RectangleCall == Component("Rectangle", <<"x">>)
CallChains ==
    {<<[RectangleCall EXCEPT !.succ = <<RectangleAssign>>]>>,
     <<[RectangleAssign EXCEPT !.succ =
          <<[RectangleCall EXCEPT !.succ = <<ParallelogramOutput>>]>>]>>,
     <<[Component("IF_Control", <<"a">>) EXCEPT
          !.left = <<RectangleAssign>>, !.right = <<RectangleCall>>,
          !.succ = <<ParallelogramOutput>>]>>,
     <<[Component("Loop", <<"x", "=", "1", "0">>) EXCEPT
          !.before = <<RectangleCall>>,
          !.after = <<[RectangleCall EXCEPT !.succ = <<RectangleAssign>>]>>,
          !.succ = <<RectangleCall>>]>>}

Documents ==
    {[has_start |-> TRUE, first |-> c] :
        c \in CupOver(ChainsOfSize, 0, MaxComponents)}
    \cup {[has_start |-> TRUE, first |-> c] : c \in CallChains}
    \cup {[has_start |-> FALSE, first |-> <<>>]}

InitXml ==
    /\ phase = "document"
    /\ xml \in Documents
    /\ ast = None /\ text = <<>> /\ tokens = <<>> /\ result = None
    /\ gen = None /\ outputs = <<>> /\ edits = <<>>

\* RaptorXMLParser().parse(content)
ParseXml ==
    /\ phase = "document"
    /\ result' = RaptorXMLParser_parse(xml)
    /\ phase' = "parsed"
    /\ UNCHANGED <<ast, text, tokens, xml, gen, outputs, edits>>

NextXml == ParseXml

SpecXml == InitXml /\ [][NextXml]_vars

-----------------------------------------------------------------------------
(* RaptorXMLParser on the text field of one component *)

\* Operands as written in a Raptor text field, each with the expression it
\* stands for; `word` says whether it holds an operator word.
FieldOperand(text_str, node, word) ==
    [text |-> text_str, node |-> node, word |-> word]
FieldOperands ==
    {FieldOperand(<<"a">>,
                  Id("a"), FALSE),
     FieldOperand(<<"1", "0">>,
                  IntLiteral(10), FALSE),
     FieldOperand(<<"(", "a", ")">>,
                  Id("a"), FALSE),
     FieldOperand(<<"n", "o", "t", " ", "a">>,
                  create_unary_expression(KW_NOT, Id("a")), TRUE),
     FieldOperand(<<"(", "n", "o", "t", " ", "a", ")">>,
                  create_unary_expression(KW_NOT, Id("a")), TRUE),
     FieldOperand(<<"n", "o", "t", "(", "a", ")">>,
                  create_unary_expression(KW_NOT, Id("a")), TRUE),
     FieldOperand(<<"(", " ", "n", "o", "t", " ", "a", " ", ")">>,
                  create_unary_expression(KW_NOT, Id("a")), TRUE)}

\* Connectives as written in a Raptor text field, each with the operator it
\* stands for.
FieldConnective(text_str, operator) == [text |-> text_str, op |-> operator]
FieldConnectives ==
    {FieldConnective(<<" ", "a", "n", "d", " ">>, KW_AND),
     FieldConnective(<<"a", "n", "d">>, KW_AND),
     FieldConnective(<<" ", "o", "r", " ">>, KW_OR),
     FieldConnective(<<" ", "m", "o", "d", " ">>, KW_MOD),
     FieldConnective(<<"=">>, <<"=", "=">>),
     FieldConnective(<<" ", "=", " ">>, <<"=", "=">>),
     FieldConnective(<<"<", ">">>, <<"!", "=">>),
     FieldConnective(<<" ", "<", ">", " ">>, <<"!", "=">>),
     FieldConnective(<<"=", "=">>, <<"=", "=">>),
     FieldConnective(<<" ", "=", "=", " ">>, <<"=", "=">>),
     FieldConnective(<<"<", "=">>, <<"<", "=">>),
     FieldConnective(<<">", "=">>, <<">", "=">>),
     FieldConnective(<<"!", "=">>, <<"!", "=">>),
     FieldConnective(<<"<">>, <<"<">>),
     FieldConnective(<<">">>, <<">">>)}

\* The text fields: one operand, or two operands and a connective.
FieldTexts ==
    {l.text : l \in FieldOperands}
    \cup {l.text \o c.text \o r.text :
            l \in FieldOperands, c \in FieldConnectives, r \in FieldOperands}

\* A document of one output Parallelogram with the text.
FieldDocument(text_str) ==
    [has_start |-> TRUE,
     first |-> <<[ParallelogramOutput EXCEPT !.text = text_str]>>]

InitField ==
    /\ phase = "document"
    /\ xml \in {FieldDocument(t) : t \in FieldTexts}
    /\ ast = None /\ text = <<>> /\ tokens = <<>> /\ result = None
    /\ gen = None /\ outputs = <<>> /\ edits = <<>>

SpecField == InitField /\ [][NextXml]_vars

-----------------------------------------------------------------------------
(* Claims about the expression parser *)

\* The precedence table: OR lowest, then AND, comparison, additive,
\* multiplicative; 0 for a token that is no binary operator.
Level(op) ==
    IF op = KW_OR THEN 1
    ELSE IF op = KW_AND THEN 2
    ELSE IF op \in ComparisonOps THEN 3
    ELSE IF op \in AdditiveOps THEN 4
    ELSE IF op \in MultiplicativeOps THEN 5
    ELSE 0

IsOperand(tok) == Len(tok) = 1 /\ \E k \in 1..Len(OperandNames) : tok[1] = OperandNames[k]

\* Open parentheses before position i.
ParenDepth(toks, i) ==
    Cardinality({k \in 1..(i - 1) : toks[k] = T_LPAREN})
    - Cardinality({k \in 1..(i - 1) : toks[k] = T_RPAREN})

\* Positions of the binary operators outside every parenthesis: an operator
\* token that follows an operand or a closing parenthesis.
BinaryPositions(toks) ==
    {i \in 2..Len(toks) :
        /\ Level(toks[i]) > 0
        /\ ParenDepth(toks, i) = 0
        /\ (IsOperand(toks[i - 1]) \/ toks[i - 1] = T_RPAREN)}

\* The grouping the precedence table prescribes: split at the last operator
\* of the lowest level outside parentheses; otherwise a prefix operator
\* applies to everything after it; otherwise parentheses are dropped.
RECURSIVE Grouping(_)
Grouping(toks) ==
    LET bin == BinaryPositions(toks)
    IN  IF bin # {} THEN
            LET low == CHOOSE l \in 1..5 :
                          /\ \E i \in bin : Level(toks[i]) = l
                          /\ \A i \in bin : Level(toks[i]) >= l
                at == CHOOSE i \in bin :
                          /\ Level(toks[i]) = low
                          /\ \A j \in bin : Level(toks[j]) = low => j <= i
            IN  create_binary_expression(toks[at],
                    Grouping(SubSeq(toks, 1, at - 1)),
                    Grouping(SubSeq(toks, at + 1, Len(toks))))
        ELSE IF toks[1] \in UnaryOps
             THEN create_unary_expression(toks[1], Grouping(Tail(toks)))
        ELSE IF toks[1] = T_LPAREN
             THEN Grouping(SubSeq(toks, 2, Len(toks) - 1))
        ELSE create_identifier(toks[1])

\* The chains as one set, put in order once so that membership is found by
\* bisection.
Chains == {toks \in PlainChains \cup DecoratedChains : TRUE}
IsChain(toks) == toks \in Chains

HasTwoLevels(toks) ==
    \E i \in BinaryPositions(toks), j \in BinaryPositions(toks) :
        Level(toks[i]) # Level(toks[j])

\* C8: a token list of operands and binary operators (with prefix operators
\* and parentheses) that parses is grouped as the precedence table
\* prescribes: * / MOD tighter than + -, tighter than the comparisons,
\* tighter than AND, tighter than OR; parentheses override.
C8_Precedence ==
    (phase = "parsed" /\ IsChain(tokens) /\ result.ok)
        => result.node = Grouping(tokens)

\* C8 witness: 1 + 2 * 3 in operands, a + b * c, parsed as (a + (b * c)).
C8_Witness ==
    /\ phase = "parsed"
    /\ tokens = <<<<"a">>, <<"+">>, <<"b">>, <<"*">>, <<"c">>>>
    /\ result.ok
    /\ result.node.operator = <<"+">>
    /\ result.node.right.type = "BinaryExpression"
    /\ result.node.right.operator = <<"*">>

Operand(tok) == create_identifier(tok)

SameLeftAssocLevel(o1, o2) ==
    Level(o1) = Level(o2) /\ Level(o1) \in {1, 2, 4, 5}

\* C9: a chain a op1 b op2 c of two operators of one of the levels OR, AND,
\* additive, multiplicative parses as ((a op1 b) op2 c).
C9_LeftAssociative ==
    (/\ phase = "parsed"
     /\ Len(tokens) = 5
     /\ IsOperand(tokens[1]) /\ IsOperand(tokens[3]) /\ IsOperand(tokens[5])
     /\ SameLeftAssocLevel(tokens[2], tokens[4]))
        => /\ result.ok
           /\ result.node =
                create_binary_expression(tokens[4],
                    create_binary_expression(tokens[2], Operand(tokens[1]),
                                             Operand(tokens[3])),
                    Operand(tokens[5]))

\* C9 witness: a - b + c parsed with (a - b) as the left operand of +.
C9_Witness ==
    /\ phase = "parsed"
    /\ tokens = <<<<"a">>, <<"-">>, <<"b">>, <<"+">>, <<"c">>>>
    /\ result.ok
    /\ result.node.operator = <<"+">>
    /\ result.node.left.type = "BinaryExpression"
    /\ result.node.left.operator = <<"-">>
    /\ result.node.right = Operand(<<"c">>)

\* C10: a prefix operator binds tighter than every binary operator, u a op b
\* is ((u a) op b), and prefix operators nest to the right, u1 u2 x is
\* (u1 (u2 x)).
C10_UnaryBinding ==
    /\ (/\ phase = "parsed"
        /\ Len(tokens) = 4
        /\ tokens[1] \in UnaryOps /\ IsOperand(tokens[2])
        /\ tokens[3] \in BinaryOps /\ IsOperand(tokens[4]))
          => /\ result.ok
             /\ result.node =
                  create_binary_expression(tokens[3],
                      create_unary_expression(tokens[1], Operand(tokens[2])),
                      Operand(tokens[4]))
    /\ (/\ phase = "parsed"
        /\ Len(tokens) = 3
        /\ tokens[1] \in UnaryOps /\ tokens[2] \in UnaryOps
        /\ IsOperand(tokens[3]))
          => /\ result.ok
             /\ result.node =
                  create_unary_expression(tokens[1],
                      create_unary_expression(tokens[2], Operand(tokens[3])))

\* C10 witness: - a * b parsed as a product whose left operand is (- a).
C10_Witness ==
    /\ phase = "parsed"
    /\ tokens = <<T_MINUS, <<"a">>, <<"*">>, <<"b">>>>
    /\ result.ok
    /\ result.node.operator = <<"*">>
    /\ result.node.left.type = "UnaryExpression"

\* C10 witness of the nesting: NOT - a parsed as NOT applied to (- a).
C10_WitnessNested ==
    /\ phase = "parsed"
    /\ tokens = <<KW_NOT, T_MINUS, <<"a">>>>
    /\ result.ok
    /\ result.node.type = "UnaryExpression"
    /\ result.node.argument.type = "UnaryExpression"

\* Two comparison operators of one operand: at the same parenthesis depth,
\* inside the same parentheses, with no AND or OR of that depth between.
ChainedComparison(toks) ==
    \E i \in 1..Len(toks), j \in 1..Len(toks) :
        /\ i < j
        /\ toks[i] \in ComparisonOps /\ toks[j] \in ComparisonOps
        /\ ParenDepth(toks, i) = ParenDepth(toks, j)
        /\ \A k \in i..j :
            /\ ParenDepth(toks, k) >= ParenDepth(toks, i)
            /\ (ParenDepth(toks, k) = ParenDepth(toks, i)
                    => toks[k] \notin {KW_AND, KW_OR})

\* C11: a token list with two comparison operators at the same nesting
\* level of one operand (a < b < c) makes parse raise ParsingError; no
\* expression is returned.
C11_ChainedComparisonRejected ==
    (phase = "parsed" /\ ChainedComparison(tokens))
        => (~result.ok /\ result.node = None
            /\ result.err \in {"UnexpectedToken", "Expected", "UnexpectedEnd"})

\* C11 witness: a < b < c raises on the second <.
C11_Witness ==
    /\ phase = "parsed"
    /\ tokens = <<<<"a">>, <<"<">>, <<"b">>, <<"<">>, <<"c">>>>
    /\ ~result.ok
    /\ result.err = "UnexpectedToken"

\* C11 witness inside parentheses: ( a == b > c ) raises at the second
\* operator, where the closing parenthesis is expected.
C11_WitnessParenthesised ==
    /\ phase = "parsed"
    /\ tokens = <<T_LPAREN, <<"a">>, <<"=", "=">>, <<"b">>, <<">">>, <<"c">>,
                  T_RPAREN>>
    /\ ~result.ok
    /\ result.err = "Expected"

\* The tokens an expression node is built from, parentheses not counted:
\* one per operand and per operator, one for the word INPUT.
RECURSIVE NodeTokens(_)
NodeTokens(node) ==
    IF node.type = "BinaryExpression"
    THEN 1 + NodeTokens(node.left) + NodeTokens(node.right)
    ELSE IF node.type = "UnaryExpression" THEN 1 + NodeTokens(node.argument)
    ELSE IF node.type = "CallExpression"
    THEN 1 + NodeTokens(node.arguments[1])
    ELSE 1

Parentheses(toks) ==
    Cardinality({k \in 1..Len(toks) : toks[k] \in {T_LPAREN, T_RPAREN}})

\* C12: on a non-empty token list parse either returns an expression built
\* from every token of the list, or raises ParsingError (unexpected token,
\* unexpected end, missing parenthesis) and returns nothing; it never
\* returns an expression while tokens remain.
C12_AllOrError ==
    (phase = "parsed" /\ tokens # <<>>)
        => /\ result.ok =>
                /\ result.node # None
                /\ result.pos = Len(tokens) + 1
                /\ NodeTokens(result.node) = Len(tokens) - Parentheses(tokens)
           /\ ~result.ok =>
                /\ result.node = None
                /\ result.err \in {"UnexpectedToken", "UnexpectedEnd",
                                   "Expected"}

\* C12 witness: a complete expression followed by a token, a 1, raises the
\* unexpected-token error instead of returning a.
C12_Witness ==
    /\ phase = "parsed"
    /\ tokens = <<<<"a">>, <<"1">>>>
    /\ ~result.ok
    /\ result.err = "UnexpectedToken"

\* C12 witnesses of the premature end: a + and ( a.
C12_WitnessEnd ==
    /\ phase = "parsed"
    /\ tokens = <<<<"a">>, <<"+">>>>
    /\ result.err = "UnexpectedEnd"
C12_WitnessParenthesis ==
    /\ phase = "parsed"
    /\ tokens = <<T_LPAREN, <<"a">>>>
    /\ result.err = "Expected"

-----------------------------------------------------------------------------
(* Claims about FlowLang texts: generation, parsing, line structure *)

RoundTripped == phase = "parsed" /\ ast.type = "Program" /\ edits = <<>>

\* C1: for every program the generator accepts, parsing the generated text
\* gives back the program, be the alternate of an IfStatement absent, empty
\* or non-empty.
C1_RoundTrip ==
    RoundTripped => (result.ok /\ result.node = ast)

\* The blocks left open at the end of a token list, innermost last: "IF"
\* for a THEN body, "ELSE" for an ELSE body, "LOOP" for a loop body.
RECURSIVE OpenBlocks(_, _, _)
OpenBlocks(toks, i, open) ==
    IF i > Len(toks) THEN open
    ELSE LET t == toks[i]
             top == IF open = <<>> THEN "" ELSE open[Len(open)]
             rest == SubSeq(open, 1, Len(open) - 1)
         IN  OpenBlocks(toks, i + 1,
                 IF t = KW_IF THEN Append(open, "IF")
                 ELSE IF t \in {KW_LOOP, KW_WHILE} THEN Append(open, "LOOP")
                 ELSE IF t = KW_ELSE /\ top = "IF" THEN Append(rest, "ELSE")
                 ELSE IF t = KW_ENDIF /\ top \in {"IF", "ELSE"} THEN rest
                 ELSE IF t = KW_ENDLOOP /\ top = "LOOP" THEN rest
                 ELSE open)

Truncated == edits # <<>> /\ edits[1].kind = "truncate"

\* C4: a text that ends inside the body of an IF, of an ELSE, or of a LOOP
\* or WHILE makes parse raise a ParsingError; no AST is produced.
C4_UnterminatedRaises ==
    (/\ phase = "parsed"
     /\ Truncated
     /\ OpenBlocks(Tokenize(text), 1, <<>>) # <<>>)
        => (~result.ok /\ result.err # "hang")

InnerNewlines(toks) ==
    {i \in 1..Len(toks) : toks[i] = NEWLINE /\ ParenDepth(toks, i) > 0}

WithoutInnerNewlines(toks) ==
    LET keep == {i \in 1..Len(toks) : i \notin InnerNewlines(toks)}
        Nth[k \in 0..Len(toks)] ==
            IF k = 0 THEN 0
            ELSE CHOOSE i \in keep : i > Nth[k - 1]
                                     /\ \A j \in keep : j > Nth[k - 1] => i <= j
    IN  [k \in 1..Cardinality(keep) |-> toks[Nth[k]]]

\* C5: newline markers inside parentheses are ignored: a text with line
\* breaks inside a parenthesised expression parses, and to the AST of the
\* token sequence without those markers.
C5_NewlinesInParens ==
    (/\ phase = "parsed"
     /\ InnerNewlines(Tokenize(text)) # {}
     /\ ParseTokens(WithoutInnerNewlines(Tokenize(text))).ok)
        => /\ result.ok
           /\ result.node = ParseTokens(WithoutInnerNewlines(Tokenize(text))).node

IsOutputOf(st, chars) ==
    /\ st.type = "ExpressionStatement"
    /\ st.expression.callee = CALLEE_OUTPUT
    /\ st.expression.arguments = <<create_literal(chars)>>

\* C6: scenario S4, an IF with an ELSE written on one line, parses to one
\* IfStatement with exactly one Output in each branch.
C6_OneLineIfElse ==
    (phase = "parsed" /\ text = S4Text)
        => /\ result.ok
           /\ Len(result.node.body) = 1
           /\ result.node.body[1].type = "IfStatement"
           /\ Len(result.node.body[1].consequent.body) = 1
           /\ IsOutputOf(result.node.body[1].consequent.body[1], <<"p">>)
           /\ result.node.body[1].alternate.type = "BlockStatement"
           /\ Len(result.node.body[1].alternate.body) = 1
           /\ IsOutputOf(result.node.body[1].alternate.body[1], <<"n">>)

\* The first statement of the tokens has no expression where one belongs:
\* OUTPUT at the end of its line, name := at the end of its line, IF THEN,
\* WHILE DO.
LacksExpression(toks) ==
    /\ toks # <<>>
    /\ \/ toks[1] = KW_OUTPUT /\ Peek(toks, 2) \in {NoToken, NEWLINE}
       \/ /\ IsIdentifierToken(toks[1]) /\ toks[1] \notin RESERVED_KEYWORDS
          /\ Peek(toks, 2) = T_ASSIGN
          /\ Peek(toks, 3) \in {NoToken, NEWLINE}
       \/ toks[1] = KW_IF /\ Peek(toks, 2) = KW_THEN
       \/ toks[1] = KW_WHILE /\ Peek(toks, 2) = KW_DO

\* The expression slice of that statement, as _parse_expression cuts it.
ExpressionSlice(toks) ==
    SubSeq(toks, IF toks[1] \in {KW_OUTPUT, KW_IF, KW_WHILE} THEN 2 ELSE 3,
           SliceEnd(toks, IF toks[1] \in {KW_OUTPUT, KW_IF, KW_WHILE}
                          THEN 2 ELSE 3, 0) - 1)

\* C13: ExpressionParser.parse on an empty token slice returns no expression
\* and raises nothing, whereas a statement whose expression slice is empty
\* (OUTPUT with no argument, an assignment with nothing after :=, IF or
\* WHILE with no test) makes the statement parser raise ParsingError.
C13_EmptyExpression ==
    (phase = "parsed" /\ LacksExpression(Tokenize(text)))
        => /\ ExpressionSlice(Tokenize(text)) = <<>>
           /\ ExpressionParser_parse(ExpressionSlice(Tokenize(text))).ok
           /\ ExpressionParser_parse(ExpressionSlice(Tokenize(text))).node
                = None
           /\ ~result.ok
           /\ result.node = None
           /\ result.err = "ExpectedExpression"

\* C13 witness: OUTPUT alone raises.
C13_Witness ==
    /\ phase = "parsed"
    /\ text = S6OutputText
    /\ result.err = "ExpectedExpression"

\* C13 witnesses of the other statements:  x :=   IF THEN   WHILE DO
C13_WitnessOthers ==
    /\ phase = "parsed"
    /\ text \in NoExpressionTexts
    /\ result.err = "ExpectedExpression"

\* The first statement of the tokens begins with an expression.
BeginsWithExpression(toks) ==
    IsExpressionStart(Peek(toks, SkipNewlines(toks, 1)))

\* What C14 says of the first statement, l being its leading expression.
AssignmentOnly(toks, l) ==
    /\ result.ok =>
        /\ l.ok
        /\ Peek(toks, l.pos) = T_ASSIGN
        /\ result.node.body[1].type = "AssignmentStatement"
        /\ result.node.body[1].left = l.node
        /\ l.node.type = "Identifier"
    /\ (l.ok /\ Peek(toks, l.pos) # T_ASSIGN) =>
        (~result.ok /\ result.node = None /\ result.err = "InvalidStatement")
    /\ (/\ l.ok /\ Peek(toks, l.pos) = T_ASSIGN
        /\ l.node.type # "Identifier"
        /\ ParseExpression(toks, l.pos + 1).ok) =>
        (/\ ~result.ok /\ result.node = None
         /\ result.err = "InvalidAssignmentTarget")

\* C14: a statement that begins with an expression is an AssignmentStatement
\* only when the expression is an Identifier followed by := and another
\* expression; a left side that is no Identifier raises ParsingError
\* (invalid target), an expression without := raises ParsingError; no AST
\* is returned in either case.
C14_AssignmentOnly ==
    (phase = "parsed" /\ BeginsWithExpression(Tokenize(text)))
        => AssignmentOnly(Tokenize(text),
               ParseExpression(Tokenize(text),
                               SkipNewlines(Tokenize(text), 1)))

\* C14 witness: 1 := 2 raises the invalid-target error.
C14_Witness ==
    /\ phase = "parsed"
    /\ text = S6AssignText
    /\ ~result.ok
    /\ result.err = "InvalidAssignmentTarget"

\* C14 witness of the bare expression: x + 1 raises.
C14_WitnessBare ==
    /\ phase = "parsed"
    /\ text = BareExpressionText
    /\ ~result.ok
    /\ result.err = "InvalidStatement"

\* C14 witness of the assignment itself: x := INPUT("?") is parsed.
C14_WitnessAssigned ==
    /\ phase = "parsed"
    /\ text = S5Text
    /\ result.ok
    /\ result.node.body[1].type = "AssignmentStatement"
    /\ result.node.body[1].left = Id("x")

\* The step types a line comment at the end of a line of the text.
CommentTyped == edits = <<>> /\ edits' # <<>> /\ edits'[1].kind = "comment"

\* The lexer and the parser give the same for the text before and after
\* the step.
SameTokensAndResult ==
    /\ Tokenize(text') = Tokenize(text)
    /\ RapcodeParser_parse(text') = RapcodeParser_parse(text)

\* C16: a line comment typed at the end of any line of a text leaves the
\* token sequence of the lexer, and so the result of the parser, unchanged.
C16_CommentTransparent == [][CommentTyped => SameTokensAndResult]_vars

\* The positions at which TOKEN_REGEX.finditer begins a match.
RECURSIVE MatchStartsFrom(_, _)
MatchStartsFrom(s, i) ==
    IF i > Len(s) THEN {}
    ELSE {i} \cup MatchStartsFrom(s, MatchAt(s, i).next)

\* The -- of the typed comment begins a match of the lexer: it lies in no
\* string literal and does not follow a - directly.
CommentLexed ==
    /\ CommentTyped
    /\ (IF text'[edits'[1].at + 1] = " " THEN edits'[1].at + 2
                                         ELSE edits'[1].at + 1)
          \in MatchStartsFrom(text', 1)

\* C16, amended: a line comment typed at the end of a line leaves the token
\* sequence of the lexer and the result of the parser unchanged when the
\* lexer begins a match at its -- (the line does not end inside a string
\* literal).
C16_LexedCommentTransparent == [][CommentLexed => SameTokensAndResult]_vars

\* C16: the comment itself gives no token and the line break after it gives
\* one NEWLINE: a commented first line of S2 is lexed as LOOP, NEWLINE, IF.
C16_Witness ==
    /\ phase = "parsed"
    /\ ast = S2Program
    /\ edits # <<>> /\ edits[1] = [kind |-> "comment", at |-> 4]
    /\ SubSeq(Tokenize(text), 1, 3) = <<KW_LOOP, NEWLINE, KW_IF>>
    /\ result.ok /\ result.node = ast

\* C16: typed into the first line of a string literal of two lines, the
\* text  -- c  is part of the literal.
C16_WitnessInString ==
    /\ phase = "parsed"
    /\ edits # <<>> /\ edits[1] = [kind |-> "comment", at |-> 9]
    /\ Len(Tokenize(text)) = 2
    /\ Len(Tokenize(text)[2]) > Len(Tokenize(TwoLineStringText)[2])
    /\ result.ok

-----------------------------------------------------------------------------
(* Claims about diagram generation *)

\* Every BreakStatement of the statements lies in the body of a
\* WhileStatement, `loops` being the number of loops around them.
RECURSIVE EveryBreakEnclosed(_, _)
EveryBreakEnclosed(stmts, loops) ==
    \A i \in 1..Len(stmts) :
        IF stmts[i].type = "BreakStatement" THEN loops > 0
        ELSE IF stmts[i].type = "WhileStatement"
             THEN EveryBreakEnclosed(stmts[i].body.body, loops + 1)
        ELSE IF stmts[i].type = "IfStatement"
             THEN /\ EveryBreakEnclosed(stmts[i].consequent.body, loops)
                  /\ (stmts[i].alternate.type = "BlockStatement"
                        => EveryBreakEnclosed(stmts[i].alternate.body, loops))
        ELSE TRUE

\* C2: a generate call of either diagram generator completes without
\* GenerationError exactly when every BreakStatement of the program has an
\* enclosing WhileStatement.
C2_BreakNeedsLoop ==
    \A k \in 1..Len(outputs) :
        (outputs[k].err # "GenerationError")
            <=> EveryBreakEnclosed(ast.body, 0)

\* C2 witness: a break two IfStatements below its loop is drawn.
C2_Witness ==
    /\ Len(outputs) >= 1
    /\ ast = NestedBreakProgram
    /\ outputs[1].err = "none"
    /\ outputs[1].text # <<>>

\* C2 witness of the other direction: a break under an IfStatement that
\* follows a loop raises.
C2_WitnessStray ==
    /\ Len(outputs) >= 1
    /\ ast = StrayBreakProgram
    /\ outputs[1].err = "GenerationError"

\* C7: two generate calls for one program, on the same instance or on two
\* instances, return the same text.
C7_SameText ==
    Len(outputs) >= 2 => outputs[1] = outputs[2]

\* The statement types the walkers have a case for.
KnownStatementTypes ==
    {"AssignmentStatement", "ExpressionStatement", "IfStatement",
     "WhileStatement", "BreakStatement"}

\* A statement the diagram walker draws as an unknown node: one of no known
\* type, or an ExpressionStatement whose call is not Output.
UnknownToWalker(node) ==
    \/ node.type \notin KnownStatementTypes
    \/ /\ node.type = "ExpressionStatement"
       /\ node.expression.callee # CALLEE_OUTPUT

\* The statements of the list, nested ones included.
RECURSIVE AllStatements(_)
AllStatements(stmts) ==
    IF stmts = <<>> THEN <<>>
    ELSE <<Head(stmts)>>
         \o (IF Head(stmts).type = "WhileStatement"
             THEN AllStatements(Head(stmts).body.body)
             ELSE IF Head(stmts).type = "IfStatement"
             THEN AllStatements(Head(stmts).consequent.body)
                  \o (IF Head(stmts).alternate.type = "BlockStatement"
                      THEN AllStatements(Head(stmts).alternate.body)
                      ELSE <<>>)
             ELSE <<>>)
         \o AllStatements(Tail(stmts))

\* The number of statements of the program that the walker draws as
\* unknown nodes.
UnknownCount(program) ==
    Len(SelectSeq(AllStatements(program.body), UnknownToWalker))

L_Unknown == <<"U", "n", "k", "n", "o", "w", "n">>

\* The nodes of a diagram text whose label begins with Unknown.
UnknownNodes(items) ==
    {k \in 1..Len(items) :
        /\ items[k].kind = "node"
        /\ Len(items[k].label) >= Len(L_Unknown)
        /\ SubSeq(items[k].label, 1, Len(L_Unknown)) = L_Unknown}

\* A generate call was made for a program with a statement unknown to the
\* walker.
UnknownGenerated ==
    /\ Len(outputs) >= 1
    /\ UnknownCount(ast) > 0

\* C17: for a program with a statement of no known kind, or an
\* ExpressionStatement whose call is not Output, a generate call of either
\* diagram generator raises nothing and returns a diagram with a node
\* labeled Unknown for each such statement.
C17_UnknownDrawn ==
    UnknownGenerated =>
        \A k \in 1..Len(outputs) :
            /\ outputs[k].err = "none"
            /\ Cardinality(UnknownNodes(outputs[k].text))
                 = UnknownCount(ast)

\* C17 for GraphvizGenerator alone.
C17_UnknownDrawnByGraphviz ==
    (UnknownGenerated /\ gen.target = "graphviz") =>
        \A k \in 1..Len(outputs) :
            /\ outputs[k].err = "none"
            /\ Cardinality(UnknownNodes(outputs[k].text))
                 = UnknownCount(ast)

\* C17: MermaidGenerator raises KeyError on the shape of the unknown node.
C17_WitnessMermaid ==
    /\ UnknownGenerated
    /\ gen.target = "mermaid"
    /\ outputs[1].err = "KeyError"

\* C17: GraphvizGenerator draws the ForStatement after x := (a + 1).
C17_WitnessGraphviz ==
    /\ UnknownGenerated
    /\ ast = UnknownKindProgram
    /\ gen.target = "graphviz"
    /\ outputs[1].err = "none"
    /\ \E k \in UnknownNodes(outputs[1].text) :
        outputs[1].text[k].shape = "octagon"

\* The program at hand has a statement, nested ones included, whose type is
\* none of the five statement types.
HasUnknownType ==
    /\ ast.type = "Program"
    /\ \E k \in 1..Len(AllStatements(ast.body)) :
        AllStatements(ast.body)[k].type \notin KnownStatementTypes

\* C18: RapcodeGenerator.generate raises GenerationError for a program with
\* a statement of unknown type: no text is returned for it, and the program
\* stays ungenerated.
C18_UnknownIsFatal ==
    HasUnknownType => (phase = "program" /\ text = <<>>)

\* C18, the call itself: generate does not return for such a program.
C18_GenerateRaises ==
    (phase = "program" /\ HasUnknownType)
        => ~RapcodeGenerator_generate(ast).ok

\* C18: for  x := (a + 1)  followed by a ForStatement the generator returns
\* the text of the assignment alone.
C18_WitnessSkipped ==
    /\ phase = "generated"
    /\ ast = UnknownKindProgram
    /\ text = <<"x", " ", ":", "=", " ", "(", "a", " ", "+", " ", "1", ")">>

\* The program is one loop  While(true, [If(E, [Break]), S...]) , and a
\* generate call was made for it.
MidTestDrawn ==
    /\ Len(outputs) >= 1
    /\ Len(ast.body) = 1
    /\ ast.body[1].type = "WhileStatement"
    /\ IsLiteralTrue(ast.body[1].test)
    /\ ast.body[1].body.body # <<>>
    /\ ast.body[1].body.body[1].type = "IfStatement"
    /\ ast.body[1].body.body[1].consequent.body = <<create_break_statement>>
    /\ ast.body[1].body.body[1].alternate = None

NodeItems(items) == SelectSeq(items, LAMBDA it : it.kind = "node")
EdgesFrom(items, id) ==
    {[to |-> items[k].to, label |-> items[k].label] :
        k \in {j \in 1..Len(items) :
                 items[j].kind = "edge" /\ items[j].from = id}}

\* The diagram `items` of the loop, whose Start node has the id s: the
\* decision node is s + 1 and the exit s + 2, and `after` is the walk of
\* the after-body S... on its own, from the id s + 3 on.
MidTestShape(items, loop, target, after) ==
    /\ \E k \in 1..Len(items) :
        /\ items[k].kind = "node" /\ items[k].id = items[1].id + 1
        /\ items[k].shape = "diamond"
        /\ items[k].label
             = EscapeLabel(target, ExprToStr(loop.body.body[1].test))
    /\ \E k \in 1..Len(items) :
        /\ items[k].kind = "node" /\ items[k].id = items[1].id + 2
        /\ items[k].shape = "point"
    \* the decision node, the exit, Start and End are the only nodes that
    \* the after-body does not account for
    /\ Len(NodeItems(items)) = 4 + Len(NodeItems(after.st.items))
    /\ \A k \in 1..Len(after.st.items) :
        \E j \in 1..Len(items) : items[j] = after.st.items[k]
    /\ EdgesFrom(items, items[1].id + 1)
         = {[to |-> items[1].id + 2, label |-> L_True],
            [to |-> Or(after.entry, items[1].id + 1), label |-> L_False]}
    /\ after.exit # NoNode
         => [to |-> items[1].id + 1, label |-> <<>>]
              \in EdgesFrom(items, after.exit)

\* C19: for a loop While(true, [If(E, [Break]), S...]) the walker emits one
\* decision node labeled E and one exit node; the True edge of the decision
\* goes to the exit and its False edge to the entry of S...; the exit of
\* S... has an edge back to the decision; the if-break and its
\* BreakStatement get no node of their own.
C19_MidTestDiagram ==
    MidTestDrawn =>
        \A k \in 1..Len(outputs) :
            /\ outputs[k].err = "none"
            /\ Let(GenerateFromNodes(
                       [NewVisualizer(gen.target) EXCEPT
                            !.node_count = outputs[k].text[1].id + 3,
                            !.loop_exit_stack = <<outputs[k].text[1].id + 2>>],
                       Tail(ast.body[1].body.body)),
                   LAMBDA after :
                       MidTestShape(outputs[k].text, ast.body[1],
                                    gen.target, after))

\* C19 witness: S2 drawn by a new MermaidGenerator is Start, the decision
\* (x == 10), the exit, x := (x + 1) and End, with the edges decision
\* -True-> exit, decision -False-> assignment, assignment -> decision.
C19_Witness ==
    /\ MidTestDrawn
    /\ ast = S2Program
    /\ gen.target = "mermaid"
    /\ outputs[1].err = "none"
    /\ [k \in 1..5 |-> <<outputs[1].text[k].id, outputs[1].text[k].shape>>]
         = <<<<0, "start">>, <<1, "diamond">>, <<2, "point">>, <<3, "box">>,
             <<4, "start">>>>
    /\ outputs[1].text[2].label
         = <<"(", "x", " ", "=", "=", " ", "1", "0", ")">>
    /\ EdgesFrom(outputs[1].text, 1)
         = {[to |-> 2, label |-> L_True], [to |-> 3, label |-> L_False]}
    /\ EdgesFrom(outputs[1].text, 3) = {[to |-> 1, label |-> <<>>]}

\* C19 witness: a second call on the same instance draws a loop with a
\* nested loop in its after-body.
C19_WitnessNested ==
    /\ MidTestDrawn
    /\ Len(outputs) = 2
    /\ ast = MidTestNestedProgram
    /\ outputs[2].err = "none"
    /\ outputs[2].text[1].id > 0

\* C19 witness: an after-body that ends with a break has no exit, and no
\* edge leads back from it.
C19_WitnessNoExit ==
    /\ MidTestDrawn
    /\ ast = MidTestBreakProgram
    /\ outputs[1].err = "none"
    /\ EdgesFrom(outputs[1].text, 4) = {[to |-> 2, label |-> <<>>]}

\* The number of spaces a line begins with, and the word after them.
LeadingSpaces(line) == SpanEnd(line, 1, {" "}) - 1
FirstWord(line) ==
    SubSeq(line, LeadingSpaces(line) + 1,
           SpanEnd(line, LeadingSpaces(line) + 1, Chars \ {" "}) - 1)

StatementWords ==
    {KW_IF, KW_ELSE, KW_ENDIF, KW_LOOP, KW_WHILE, KW_ENDLOOP, KW_BREAK,
     KW_OUTPUT}

\* A line as its indentation and its leading keyword (":=" for an
\* assignment).
LineShape(line) ==
    [indent |-> LeadingSpaces(line),
     word |-> IF FirstWord(line) \in StatementWords THEN FirstWord(line)
              ELSE T_ASSIGN]

At(depth, word) == <<[indent |-> 2 * depth, word |-> word]>>

\* The lines that the statements at nesting depth `depth` are to give:
\* LOOP for a WhileStatement whose test is the literal true and WHILE for
\* any other, the statements of a block one level deeper, ELSE when the
\* alternate has statements.
RECURSIVE LineShapes(_, _)
LineShapes(stmts, depth) ==
    IF stmts = <<>> THEN <<>>
    ELSE (CASE Head(stmts).type = "AssignmentStatement" -> At(depth, T_ASSIGN)
            [] Head(stmts).type = "ExpressionStatement" -> At(depth, KW_OUTPUT)
            [] Head(stmts).type = "BreakStatement" -> At(depth, KW_BREAK)
            [] Head(stmts).type = "WhileStatement" ->
                At(depth, IF Head(stmts).test = BoolLiteral(TRUE)
                          THEN KW_LOOP ELSE KW_WHILE)
                \o LineShapes(Head(stmts).body.body, depth + 1)
                \o At(depth, KW_ENDLOOP)
            [] Head(stmts).type = "IfStatement" ->
                At(depth, KW_IF)
                \o LineShapes(Head(stmts).consequent.body, depth + 1)
                \o (IF Head(stmts).alternate.type = "BlockStatement"
                       /\ Head(stmts).alternate.body # <<>>
                    THEN At(depth, KW_ELSE)
                         \o LineShapes(Head(stmts).alternate.body, depth + 1)
                    ELSE <<>>)
                \o At(depth, KW_ENDIF))
         \o LineShapes(Tail(stmts), depth)

\* A text was generated for a program of statements of the known kinds.
KnownGenerated ==
    /\ phase = "generated"
    /\ UnknownCount(ast) = 0

S2Lines ==
    <<KW_LOOP,
      <<" ", " ">> \o KW_IF
          \o <<" ", "(", "x", " ", "=", "=", " ", "1", "0", ")", " ">>
          \o KW_THEN,
      <<" ", " ", " ", " ">> \o KW_BREAK,
      <<" ", " ">> \o KW_ENDIF,
      <<" ", " ", "x", " ", ":", "=", " ", "(", "x", " ", "+", " ", "1", ")">>,
      KW_ENDLOOP>>

LinesShaped(lines) ==
    [k \in 1..Len(lines) |-> LineShape(lines[k])] = LineShapes(ast.body, 0)

\* C20: the generated text has LOOP / body / ENDLOOP for a WhileStatement
\* whose test is the boolean literal true and WHILE test DO / body / ENDLOOP
\* for any other, each statement of a nested block two spaces deeper than
\* the statement around it, and an ELSE line only for an alternate that is
\* present; S2 gives the six lines LOOP, IF (x == 10) THEN, BREAK, ENDIF,
\* x := (x + 1), ENDLOOP at indents 0, 2, 4, 2, 2, 0.
C20_GeneratedLines ==
    KnownGenerated =>
        /\ LinesShaped(SplitLines(text))
        /\ \A k \in 1..Len(ast.body) :
            (ast.body[k].type = "WhileStatement"
                /\ ast.body[k].test # BoolLiteral(TRUE))
            => \E line \in {KW_WHILE \o <<" ">>
                              \o expression_to_string(ast.body[k].test)
                              \o <<" ">> \o KW_DO} :
                  \E j \in 1..Len(SplitLines(text)) :
                      SplitLines(text)[j] = line
        /\ (ast = S2Program => SplitLines(text) = S2Lines)

\* C20 witness: the text generated for S2.
C20_Witness ==
    /\ phase = "generated"
    /\ ast = S2Program
    /\ text = JoinWith(S2Lines, <<"\n">>)

\* C20 witness: a WHILE loop with IfStatements of two levels and an ELSE.
C20_WitnessWhileElse ==
    /\ phase = "generated"
    /\ ast = NestedBreakProgram
    /\ [k \in 1..Len(SplitLines(text)) |-> LineShape(SplitLines(text)[k])]
         = At(0, KW_WHILE) \o At(1, KW_IF) \o At(2, KW_IF) \o At(3, KW_BREAK)
           \o At(2, KW_ELSE) \o At(3, KW_OUTPUT) \o At(2, KW_ENDIF)
           \o At(1, KW_ENDIF) \o At(0, KW_ENDLOOP)

-----------------------------------------------------------------------------
(* Claims about the XML translator *)

\* The first component of the document is a Loop that is translated.
LoopTranslated ==
    /\ phase = "parsed"
    /\ xml.first # <<>>
    /\ xml.first[1].type = "Loop"
    /\ ~xml.first[1].nil
    /\ result.ok

\* C3: a Loop component with exit condition E, before-child statements B
\* and after-child statements A is translated to a WhileStatement with test
\* Literal true and body B, then If(E) { Break } without alternate, then A.
C3_MidTestLoop ==
    LoopTranslated =>
        Let([k \in 1..2 |->
                ParseRaptorNode(<<xml.first[1].before, xml.first[1].after>>[k])],
            LAMBDA parts :
                result.node.body[1] =
                    create_while_statement(BoolLiteral(TRUE),
                        parts[1].node
                        \o <<create_if_statement(
                                XmlExpression(xml.first[1].text).node,
                                <<create_break_statement>>, None)>>
                        \o parts[2].node))

\* C3 witness: the loop with exit x=10, x:=x+1 before the test and an
\* output of x after it becomes LOOP / x := x + 1 / IF x == 10 THEN BREAK /
\* OUTPUT x.
C3_Witness ==
    /\ LoopTranslated
    /\ xml.first[1].before # <<>>
    /\ xml.first[1].after # <<>>
    /\ result.node.body =
         <<create_while_statement(BoolLiteral(TRUE),
             <<create_assignment_statement(Id("x"),
                   create_binary_expression(<<"+">>, Id("x"), IntLiteral(1))),
               create_if_statement(
                   create_binary_expression(<<"=", "=">>, Id("x"),
                                            IntLiteral(10)),
                   <<create_break_statement>>, None),
               create_output_statement(Id("x"))>>)>>

\* Every AssignmentStatement of the statements, nested ones included, has
\* an Identifier as its left field.
RECURSIVE EveryTargetIdentifier(_)
EveryTargetIdentifier(stmts) ==
    \A i \in 1..Len(stmts) :
        IF stmts[i].type = "AssignmentStatement"
        THEN stmts[i].left.type = "Identifier"
        ELSE IF stmts[i].type = "WhileStatement"
             THEN EveryTargetIdentifier(stmts[i].body.body)
        ELSE IF stmts[i].type = "IfStatement"
             THEN /\ EveryTargetIdentifier(stmts[i].consequent.body)
                  /\ (stmts[i].alternate.type = "BlockStatement"
                        => EveryTargetIdentifier(stmts[i].alternate.body))
        ELSE TRUE

\* C15: in every program a parser returns (the statement parser for a text,
\* the XML translator for a document), the left field of every
\* AssignmentStatement is an Identifier; a Rectangle whose text before :=
\* is no identifier gives no assignment to that target.
C15_TargetIsIdentifier ==
    (phase = "parsed" /\ result.ok) => EveryTargetIdentifier(result.node.body)

\* C15, the Rectangle case alone: a document with the Rectangle 1:=2 is
\* not translated.
C15_LiteralTargetRejected ==
    (phase = "parsed" /\ xml.first # <<>>
        /\ xml.first[1] = [RectangleLiteralTarget EXCEPT
                               !.succ = xml.first[1].succ])
        => ~result.ok

\* C15 witness of the translated part: the Rectangle x:=x+1 and the input
\* Parallelogram both give assignments to the Identifier x.
C15_Witness ==
    /\ phase = "parsed" /\ result.ok
    /\ Len(result.node.body) = 2
    /\ result.node.body[1].type = "AssignmentStatement"
    /\ result.node.body[2].type = "AssignmentStatement"
    /\ result.node.body[2].right.type = "CallExpression"
    /\ EveryTargetIdentifier(result.node.body)

-----------------------------------------------------------------------------
(* Claims about the text fields of the XML translator *)

\* The text of the parsed document's component.
FieldText == xml.first[1].text

\* The operator word of a connective written without spaces stands between
\* characters that are no part of a name.
Delimited(l, c, r) ==
    (c.text[1] \in Alpha)
        => /\ l.text[Len(l.text)] \notin IdentChar
           /\ r.text[1] \notin IdentChar

\* The translator returned the output of this expression.
FieldParsedAs(node) ==
    /\ result.ok
    /\ result.node = create_program(<<create_output_statement(node)>>)

\* C21: every lowercase mod, and, or, not used as an operator in a text
\* field becomes the operator MOD, AND, OR, NOT of the expression, also as
\* the first word of the field and next to a parenthesis.
C21_OperatorWords ==
    phase = "parsed" =>
        /\ \A l \in FieldOperands :
            FieldText = l.text => FieldParsedAs(l.node)
        /\ \A l \in FieldOperands, c \in FieldConnectives,
              r \in FieldOperands :
            (FieldText = l.text \o c.text \o r.text /\ Delimited(l, c, r))
                => FieldParsedAs(create_binary_expression(c.op, l.node,
                                                          r.node))

\* The operator words of the text all have a space on either side: the
\* operands hold no word but the one spaced inside parentheses, and a word
\* connective is written with its spaces.
SpacedOperand(l) == l.word => l.text[2] = " "
SpacedWords(l, c, r) ==
    /\ SpacedOperand(l) /\ SpacedOperand(r)
    /\ c.text[1] \notin Alpha

\* C21 for the words that have a space before and after them.
C21_SpacedOperatorWords ==
    phase = "parsed" =>
        \A l \in FieldOperands, c \in FieldConnectives, r \in FieldOperands :
            (FieldText = l.text \o c.text \o r.text /\ SpacedWords(l, c, r))
                => FieldParsedAs(create_binary_expression(c.op, l.node,
                                                          r.node))

\* C21: the field  not a  is not translated.
C21_WitnessFirstWord ==
    /\ phase = "parsed"
    /\ FieldText = <<"n", "o", "t", " ", "a">>
    /\ ~result.ok

\* C21: the field  ( not a ) and 10  is translated to (NOT a) AND 10.
C21_WitnessSpaced ==
    /\ phase = "parsed"
    /\ FieldText = <<"(", " ", "n", "o", "t", " ", "a", " ", ")", " ", "a",
                     "n", "d", " ", "1", "0">>
    /\ FieldParsedAs(create_binary_expression(KW_AND,
           create_unary_expression(KW_NOT, Id("a")), IntLiteral(10)))

\* The connectives that compare, and those of them the preprocessing has
\* to rewrite.
IsComparison(c) == c.op[1] \in {"=", "!", "<", ">"}
Rewritten(c) ==
    c.text \in {<<"=">>, <<" ", "=", " ">>, <<"<", ">">>,
                <<" ", "<", ">", " ">>}

\* C22: a single = of a text field becomes ==, <> becomes !=, and the
\* operators ==, <=, >=, != , < and > are left as they are:  l = r  is
\* translated to BinaryExpression(==, l, r),  l <> r  to
\* BinaryExpression(!=, l, r).
C22_Comparisons ==
    phase = "parsed" =>
        \A l \in FieldOperands, c \in FieldConnectives, r \in FieldOperands :
            (/\ FieldText = l.text \o c.text \o r.text
             /\ IsComparison(c)
             /\ SpacedOperand(l) /\ SpacedOperand(r))
                => /\ FieldParsedAs(create_binary_expression(c.op, l.node,
                                                             r.node))
                   /\ (~Rewritten(c) /\ ~l.word /\ ~r.word)
                        => Preprocess(FieldText) = FieldText

\* C22: the field  a = 10  is translated to BinaryExpression(==, a, 10).
C22_Witness ==
    /\ phase = "parsed"
    /\ FieldText = <<"a", " ", "=", " ", "1", "0">>
    /\ Preprocess(FieldText) = <<"a", " ", "=", "=", " ", "1", "0">>
    /\ FieldParsedAs(create_binary_expression(<<"=", "=">>, Id("a"),
                                              IntLiteral(10)))

\* C22: the field  a<>10  is translated to BinaryExpression(!=, a, 10).
C22_WitnessNotEqual ==
    /\ phase = "parsed"
    /\ FieldText = <<"a", "<", ">", "1", "0">>
    /\ FieldParsedAs(create_binary_expression(<<"!", "=">>, Id("a"),
                                              IntLiteral(10)))

\* C22: the field  a<=10  is parsed as it is written.
C22_WitnessUnchanged ==
    /\ phase = "parsed"
    /\ FieldText = <<"a", "<", "=", "1", "0">>
    /\ Preprocess(FieldText) = FieldText
    /\ FieldParsedAs(create_binary_expression(<<"<", "=">>, Id("a"),
                                              IntLiteral(10)))

\* The if-break of the mid-test idiom as the specification words it: the
\* consequent is exactly [Break] and the alternate is None or an empty block.
PlainIfBreak(n) ==
    /\ n.type = "IfStatement"
    /\ n.consequent.body = <<create_break_statement>>
    /\ (n.alternate = None \/ n.alternate.body = <<>>)
FirstPlainIfBreak(body) ==
    IF \E i \in 1..Len(body) : PlainIfBreak(body[i])
    THEN CHOOSE i \in 1..Len(body) :
            /\ PlainIfBreak(body[i])
            /\ \A j \in 1..(i - 1) : ~PlainIfBreak(body[j])
    ELSE 0

\* The tests of the decision nodes of a diagram, in the order the nodes are
\* made, when the mid-test form is used for the loops of that wording, with
\* the first plain if-break as the decision, and the standard form for every
\* other loop.
RECURSIVE DecisionTests(_)
DecisionTests(stmts) ==
    IF stmts = <<>> THEN <<>>
    ELSE LET n == Head(stmts)
             i == FirstPlainIfBreak(n.body.body)
         IN  (IF n.type = "IfStatement"
              THEN <<n.test>> \o DecisionTests(n.consequent.body)
                   \o (IF n.alternate = None THEN <<>>
                       ELSE DecisionTests(n.alternate.body))
              ELSE IF n.type = "WhileStatement"
              THEN IF IsLiteralTrue(n.test) /\ i # 0
                   THEN <<n.body.body[i].test>>
                        \o DecisionTests(SubSeq(n.body.body, 1, i - 1))
                        \o DecisionTests(SubSeq(n.body.body, i + 1,
                                                Len(n.body.body)))
                   ELSE <<n.test>> \o DecisionTests(n.body.body)
              ELSE <<>>)
             \o DecisionTests(Tail(stmts))

\* The labels of the decision nodes of a diagram text, in their order.
DecisionLabels(items) ==
    Let(SelectSeq(items, LAMBDA it : it.kind = "node"
                                     /\ it.shape = "diamond"),
        LAMBDA d : [k \in 1..Len(d) |-> d[k].label])

\* C23: a WhileStatement is drawn in the mid-test form exactly when its
\* test is literal true and its body holds an IfStatement whose consequent
\* is exactly [Break] and whose alternate is empty; the first such statement
\* is the decision; every other WhileStatement is drawn in the standard
\* form, with its own test as the decision.
C23_MidTestDetection ==
    \A k \in 1..Len(outputs) :
        outputs[k].err = "none"
            => DecisionLabels(outputs[k].text)
                 = Let(DecisionTests(ast.body), LAMBDA t :
                       [j \in 1..Len(t) |->
                           EscapeLabel(gen.target, ExprToStr(t[j]))])

\* C23 for the programs whose if-breaks are all plain ones without ELSE, or
\* no if-breaks of a loop at all.
RECURSIVE PlainOrNone(_)
PlainOrNone(stmts) ==
    \A k \in 1..Len(stmts) :
        Let(stmts[k], LAMBDA n :
            IF n.type = "IfStatement"
            THEN /\ PlainOrNone(n.consequent.body)
                 /\ n.alternate # None => PlainOrNone(n.alternate.body)
            ELSE IF n.type = "WhileStatement"
            THEN /\ PlainOrNone(n.body.body)
                 /\ IsLiteralTrue(n.test)
                      => IfBreakIndex(n.body.body, 1)
                           = FirstPlainIfBreak(n.body.body)
            ELSE TRUE)
C23_PlainMidTestDetection ==
    PlainOrNone(ast.body) => C23_MidTestDetection

\* C23: the loop  LOOP / IF a THEN BREAK x := ... ENDIF / ENDLOOP  is drawn
\* in the mid-test form, with the decision a and no node for the
\* assignment.
C23_WitnessBreakThenMore ==
    /\ ast = BreakThenMoreProgram
    /\ Len(outputs) = 1 /\ outputs[1].err = "none"
    /\ DecisionLabels(outputs[1].text) = <<<<"a">>>>
    /\ Len(NodeItems(outputs[1].text)) = 4

\* C23: the loop  LOOP / IF a THEN BREAK ELSE ENDIF / ENDLOOP  is drawn in
\* the standard form, with the decisions TRUE and a.
C23_WitnessEmptyElse ==
    /\ ast = EmptyElseProgram
    /\ Len(outputs) = 1 /\ outputs[1].err = "none"
    /\ Len(DecisionLabels(outputs[1].text)) = 2
    /\ DecisionLabels(outputs[1].text)[2] = <<"a">>

\* C23: of two plain if-breaks the first is the decision, and an
\* IfStatement that ends with a break is part of the before-body.
C23_WitnessFirst ==
    /\ Len(outputs) = 1 /\ outputs[1].err = "none"
    /\ \/ /\ ast = TwoIfBreakProgram
          /\ DecisionLabels(outputs[1].text) = <<<<"a">>, <<"b">>>>
       \/ /\ ast = SecondIfBreakProgram
          /\ DecisionLabels(outputs[1].text) = <<<<"b">>, <<"a">>>>

\* The breaks of a statement list that get a node, each with the id of its
\* node and the id of the exit node of the innermost loop around it, when
\* the walk of the list starts with the node id `next` inside the loop whose
\* exit node is `exit`; and the node id after the walk.
RECURSIVE BreaksOf(_, _, _)
BreaksOf(stmts, next, exit) ==
    IF stmts = <<>> THEN [next |-> next, breaks |-> {}]
    ELSE
    Let(Head(stmts), LAMBDA n :
    Let(IF n.type = "BreakStatement"
        THEN [next |-> next + 1,
              breaks |-> {[node |-> next, exit |-> exit]}]
        ELSE IF n.type = "IfStatement"
        THEN Let(BreaksOf(n.consequent.body, next + 2, exit), LAMBDA c :
             Let(BreaksOf(IF n.alternate = None THEN <<>>
                          ELSE n.alternate.body, c.next, exit), LAMBDA a :
                 [next |-> a.next, breaks |-> c.breaks \cup a.breaks]))
        ELSE IF n.type = "WhileStatement"
        THEN Let(IF IsLiteralTrue(n.test)
                 THEN IfBreakIndex(n.body.body, 1) ELSE 0, LAMBDA i :
                 BreaksOf(SubSeq(n.body.body, 1, i - 1)
                          \o SubSeq(n.body.body, i + 1, Len(n.body.body)),
                          next + 2, next + 1))
        ELSE [next |-> next + 1, breaks |-> {}], LAMBDA h :
    Let(BreaksOf(Tail(stmts), h.next, exit), LAMBDA t :
        [next |-> t.next, breaks |-> h.breaks \cup t.breaks])))

\* The breaks of the program in a text whose Start node is the first item.
DrawnBreaks(items) == BreaksOf(ast.body, items[1].id + 1, NoNode).breaks

ShapeOf(items, id) ==
    {items[k].shape : k \in {j \in 1..Len(items) :
                               items[j].kind = "node" /\ items[j].id = id}}

\* C24: in every generated diagram the node of a BreakStatement has exactly
\* one outgoing edge, and it leads to the exit node of the innermost
\* WhileStatement around the break, in the mid-test and in the standard
\* form and below any number of IfStatements; no edge leads from the break
\* to the statement after it.
C24_BreakToInnermostExit ==
    \A k \in 1..Len(outputs) :
        outputs[k].err = "none" =>
            \A b \in DrawnBreaks(outputs[k].text) :
                /\ ShapeOf(outputs[k].text, b.node) = {"point"}
                /\ ShapeOf(outputs[k].text, b.exit) = {"point"}
                /\ EdgesFrom(outputs[k].text, b.node)
                     = {[to |-> b.exit, label |-> <<>>]}
                /\ Cardinality({j \in 1..Len(outputs[k].text) :
                        /\ outputs[k].text[j].kind = "edge"
                        /\ outputs[k].text[j].from = b.node}) = 1

\* C24 witness: the break of the inner loop leads to the exit of the inner
\* loop (node 4) and the break of the outer loop to the exit of the outer
\* loop (node 2).
C24_Witness ==
    /\ ast = InnerBreakProgram
    /\ Len(outputs) = 1 /\ outputs[1].err = "none"
    /\ DrawnBreaks(outputs[1].text)
         = {[node |-> 7, exit |-> 4], [node |-> 10, exit |-> 2]}
    /\ EdgesFrom(outputs[1].text, 7) = {[to |-> 4, label |-> <<>>]}
    /\ EdgesFrom(outputs[1].text, 10) = {[to |-> 2, label |-> <<>>]}

\* C24 witness: breaks inside a mid-test loop, one of them in a loop of the
\* standard form below an IfStatement.
C24_WitnessMidTest ==
    /\ ast = MidTestInnerBreakProgram
    /\ Len(outputs) = 1 /\ outputs[1].err = "none"
    /\ Cardinality(DrawnBreaks(outputs[1].text)) = 2

\* C24 witness: the statement after a break has no edge from the break.
C24_WitnessSequence ==
    /\ ast = BreakSequenceProgram
    /\ Len(outputs) = 1 /\ outputs[1].err = "none"
    /\ DrawnBreaks(outputs[1].text) = {[node |-> 3, exit |-> 2]}
    /\ ShapeOf(outputs[1].text, 4) = {"box"}
    /\ EdgesFrom(outputs[1].text, 3) = {[to |-> 2, label |-> <<>>]}

\* The components of a successor chain that are translated to a statement,
\* in the order of the successor links: a Rectangle with := , a
\* Parallelogram, an IF_Control, a Loop.  The chain ends at a container
\* without component and at a nil element.
Contributes(x) ==
    \/ x.type \in {"Parallelogram", "IF_Control", "Loop"}
    \/ x.type = "Rectangle" /\ AssignIndex(x.text) # 0
RECURSIVE Contributors(_)
Contributors(chain) ==
    IF chain = <<>> THEN <<>>
    ELSE IF chain[1].nil THEN <<>>
    ELSE (IF Contributes(chain[1]) THEN <<chain[1]>> ELSE <<>>)
         \o Contributors(chain[1].succ)

\* The statements are those of the contributors of the chain, one each and
\* in their order, and so are the statements of their blocks.
RECURSIVE Mirrors(_, _), StatementOf(_, _)
Mirrors(stmts, chain) ==
    Let(Contributors(chain), LAMBDA c :
        /\ Len(stmts) = Len(c)
        /\ \A k \in 1..Len(c) : StatementOf(stmts[k], c[k]))
StatementOf(s, x) ==
    IF x.type = "Rectangle" THEN s.type = "AssignmentStatement"
    ELSE IF x.type = "Parallelogram" THEN
        IF ToLower(x.is_input) = <<"t", "r", "u", "e">>
        THEN s.type = "AssignmentStatement" /\ s.right.type = "CallExpression"
        ELSE s.type = "ExpressionStatement"
    ELSE IF x.type = "IF_Control" THEN
        /\ s.type = "IfStatement"
        /\ Mirrors(s.consequent.body, x.left)
        /\ IF Contributors(x.right) = <<>> THEN s.alternate = None
           ELSE /\ s.alternate # None
                /\ Mirrors(s.alternate.body, x.right)
    ELSE
        /\ s.type = "WhileStatement"
        /\ Let(Len(Contributors(x.before)), LAMBDA n :
            /\ Len(s.body.body) > n
            /\ Mirrors(SubSeq(s.body.body, 1, n), x.before)
            /\ s.body.body[n + 1].type = "IfStatement"
            /\ s.body.body[n + 1].consequent.body = <<create_break_statement>>
            /\ Mirrors(SubSeq(s.body.body, n + 2, Len(s.body.body)), x.after))

\* C25: the statements of a translated document are those of the components
\* along the successor links, zero or one for each component and in the
\* order of the links; a Rectangle without := , a component of another type
\* and a nil element give no statement, and an IF_Control whose right child
\* gives no statement has no alternate.
C25_SuccessorChaining ==
    (phase = "parsed" /\ result.ok)
        => Mirrors(result.node.body, xml.first)

\* C25 witness: the chain  x:=x+1 -> call -> output  gives an assignment and
\* an output.
C25_Witness ==
    /\ phase = "parsed" /\ result.ok
    /\ Len(xml.first) = 1
    /\ xml.first[1] = [RectangleAssign EXCEPT !.succ =
          <<[RectangleCall EXCEPT !.succ = <<ParallelogramOutput>>]>>]
    /\ [k \in 1..Len(result.node.body) |-> result.node.body[k].type]
         = <<"AssignmentStatement", "ExpressionStatement">>

\* C25 witness: an IF_Control whose right child is empty, or holds components
\* that give no statement, has the alternate None.
C25_WitnessNoAlternate ==
    /\ phase = "parsed" /\ result.ok
    /\ Len(xml.first) = 1
    /\ xml.first[1].type = "IF_Control"
    /\ xml.first[1].right # <<>>
    /\ ~xml.first[1].right[1].nil
    /\ result.node.body[1].alternate = None

\* C25 witness: an Oval before a Loop gives no statement.
C25_WitnessSkipped ==
    /\ phase = "parsed" /\ result.ok
    /\ Len(xml.first) = 1
    /\ xml.first[1].type = "Oval"
    /\ xml.first[1].succ # <<>>
    /\ xml.first[1].succ[1].type = "Loop"
    /\ Len(result.node.body) = 1
    /\ result.node.body[1].type = "WhileStatement"

-----------------------------------------------------------------------------
(* Claims about the programs the parsers return *)

\* An expression holds no Output call, and each of its Input calls has one
\* argument.
RECURSIVE InputsPlaced(_)
InputsPlaced(e) ==
    IF e.type = "CallExpression"
    THEN /\ e.callee = CALLEE_INPUT
         /\ Len(e.arguments) = 1
         /\ InputsPlaced(e.arguments[1])
    ELSE IF e.type = "BinaryExpression"
    THEN InputsPlaced(e.left) /\ InputsPlaced(e.right)
    ELSE IF e.type = "UnaryExpression" THEN InputsPlaced(e.argument)
    ELSE TRUE

\* Every ExpressionStatement of the statements is an Output call with one
\* argument, and the expressions of the statements have their Input calls
\* placed.
RECURSIVE CallsPlaced(_)
CallsPlaced(stmts) ==
    \A i \in 1..Len(stmts) :
        Let(stmts[i], LAMBDA n :
            IF n.type = "ExpressionStatement"
            THEN /\ n.expression.type = "CallExpression"
                 /\ n.expression.callee = CALLEE_OUTPUT
                 /\ Len(n.expression.arguments) = 1
                 /\ InputsPlaced(n.expression.arguments[1])
            ELSE IF n.type = "AssignmentStatement"
            THEN InputsPlaced(n.left) /\ InputsPlaced(n.right)
            ELSE IF n.type = "IfStatement"
            THEN /\ InputsPlaced(n.test)
                 /\ CallsPlaced(n.consequent.body)
                 /\ n.alternate # None => CallsPlaced(n.alternate.body)
            ELSE IF n.type = "WhileStatement"
            THEN InputsPlaced(n.test) /\ CallsPlaced(n.body.body)
            ELSE n.type = "BreakStatement")

\* C26: in every program a parser returns, an Output call is the expression
\* of an ExpressionStatement and has one argument, an Input call stands
\* inside an expression and has one argument, and every ExpressionStatement
\* is an Output call.
C26_CallsPlaced ==
    (phase = "parsed" /\ result.ok) => CallsPlaced(result.node.body)

\* C26: an Input call, or an Output call, at the place of the other is
\* rejected, and so is an Input call without or with two arguments.
C26_MisplacedRejected ==
    (phase = "parsed"
        /\ text \in {InputStatementText, OutputValueText, OutputOutputText,
                     InputNoArgumentText, InputTwoArgumentsText})
        => ~result.ok

\* C26 witness:  OUTPUT INPUT("?")  is parsed to the statement
\* Output(Input("?")).
C26_Witness ==
    /\ phase = "parsed" /\ result.ok
    /\ text = OutputInputText
    /\ result.node.body
         = <<create_output_statement(create_input_expression(Str("?")))>>
    /\ CallsPlaced(result.node.body)

\* C26 witness:  INPUT("?")  as a statement is rejected.
C26_WitnessRejected ==
    /\ phase = "parsed"
    /\ text = InputStatementText
    /\ result.err = "InvalidStatement"

\* C26 witness: a translated document with an input Parallelogram and an
\* output Parallelogram.
C26_WitnessXml ==
    /\ phase = "parsed" /\ result.ok
    /\ xml # None
    /\ Len(result.node.body) = 2
    /\ result.node.body[1].type = "AssignmentStatement"
    /\ result.node.body[1].right.type = "CallExpression"
    /\ result.node.body[2].type = "ExpressionStatement"
    /\ CallsPlaced(result.node.body)

\* A token is a name: it matches [A-Za-z_][A-Za-z0-9_]* and is no reserved
\* word.
IsName(token) ==
    /\ token # NoToken /\ token # NEWLINE
    /\ token[1] \in IdentStart
    /\ \A k \in 1..Len(token) : token[k] \in IdentChar
    /\ token \notin RESERVED_KEYWORDS

\* The words of a block or statement, which no expression holds.
StatementKeywords ==
    {KW_IF, KW_THEN, KW_ELSE, KW_ENDIF, KW_WHILE, KW_DO, KW_LOOP, KW_ENDLOOP,
     KW_BREAK, KW_OUTPUT}

\* The tokens are  n := e  for a name n and a valid expression e.
IsAssignmentOf(toks) ==
    /\ Len(toks) >= 3
    /\ IsName(toks[1])
    /\ toks[2] = T_ASSIGN
    /\ \A k \in 3..Len(toks) :
        toks[k] \notin StatementKeywords \cup {NEWLINE, T_ASSIGN}
    /\ ExpressionParser_parse(SubSeq(toks, 3, Len(toks))).ok

\* The text  n := e  was parsed to the one statement
\* AssignmentStatement(Identifier(n), e).
ParsedAsAssignment(toks) ==
    /\ result.ok
    /\ result.node = create_program(<<create_assignment_statement(
           create_identifier(toks[1]),
           ExpressionParser_parse(SubSeq(toks, 3, Len(toks))).node)>>)

\* C27: for every name n that is no reserved word, also one that begins with
\* an underscore, and every valid expression e, the text  n := e  is parsed
\* to AssignmentStatement(Identifier(n), e).
C27_NameIsTarget ==
    phase = "parsed" =>
        Let(Tokenize(text), LAMBDA toks :
            IsAssignmentOf(toks) => ParsedAsAssignment(toks))

\* C27 for the names that begin with a letter.
C27_LetterNameIsTarget ==
    phase = "parsed" =>
        Let(Tokenize(text), LAMBDA toks :
            (IsAssignmentOf(toks) /\ toks[1][1] \in Alpha)
                => ParsedAsAssignment(toks))

\* C27:  _x := 1  is rejected at its first token.
C27_WitnessUnderscore ==
    /\ phase = "parsed"
    /\ text = UnderscoreTargetText
    /\ IsAssignmentOf(Tokenize(text))
    /\ result.err = "UnexpectedToken"

\* C27:  x_1 := 1  is parsed to the assignment to x_1.
C27_WitnessLetter ==
    /\ phase = "parsed"
    /\ text = UnderscoreInsideText
    /\ ParsedAsAssignment(Tokenize(text))
    /\ result.node.body[1].left.name = <<"x", "_", "1">>

\* C28: RapcodeParser.parse returns for every text, with a Program or by
\* raising ParsingError, also for a text with an ELSE, ENDIF or ENDLOOP
\* that has no opener and for a text that ends inside a block: no statement
\* loop repeats without advancing.
C28_ParseReturns ==
    phase = "parsed" => (result.ok \/ result.err # "hang")

\* C28 for the texts as generated and the texts as written, the dangling
\* ones left out: every ELSE, ENDIF and ENDLOOP of such a text closes a
\* block of its own kind and no body is left open.
C28_ClosedBlocksReturn ==
    (phase = "parsed" /\ edits = <<>> /\ text \notin DanglingTexts)
        => (result.ok \/ result.err # "hang")

\* C28: a stray ELSE at top level, after a statement, keeps the statement
\* loop of parse at the same token.
C28_WitnessStrayElse ==
    /\ phase = "parsed"
    /\ text = AssignThenElseText
    /\ ~result.ok /\ result.err = "hang"

\* C28: an ENDLOOP inside the THEN body of an IF does the same to the loop
\* of _parse_if.
C28_WitnessEndLoopInIf ==
    /\ phase = "parsed"
    /\ text = EndLoopInIfText
    /\ result.err = "hang"

\* C28: a text that ends inside a THEN body raises.
C28_WitnessOpenIf ==
    /\ phase = "parsed"
    /\ text = IfOpenText
    /\ result.err = "Expected"

\* No Identifier of the expression, or of the statements, has a reserved
\* word as its name.
RECURSIVE NoReservedName(_)
NoReservedName(e) ==
    IF e.type = "Identifier" THEN e.name \notin RESERVED_KEYWORDS
    ELSE IF e.type = "BinaryExpression"
    THEN NoReservedName(e.left) /\ NoReservedName(e.right)
    ELSE IF e.type = "UnaryExpression" THEN NoReservedName(e.argument)
    ELSE IF e.type = "CallExpression"
    THEN \A k \in 1..Len(e.arguments) : NoReservedName(e.arguments[k])
    ELSE TRUE
RECURSIVE NoReservedNames(_)
NoReservedNames(stmts) ==
    \A i \in 1..Len(stmts) :
        Let(stmts[i], LAMBDA n :
            IF n.type = "ExpressionStatement" THEN NoReservedName(n.expression)
            ELSE IF n.type = "AssignmentStatement"
            THEN NoReservedName(n.left) /\ NoReservedName(n.right)
            ELSE IF n.type = "IfStatement"
            THEN /\ NoReservedName(n.test)
                 /\ NoReservedNames(n.consequent.body)
                 /\ n.alternate # None => NoReservedNames(n.alternate.body)
            ELSE IF n.type = "WhileStatement"
            THEN NoReservedName(n.test) /\ NoReservedNames(n.body.body)
            ELSE TRUE)

\* C29: no Identifier of a program that RapcodeParser.parse returns has a
\* reserved word as its name; a reserved word at the place of an operand
\* makes parse raise ParsingError.
C29_NoReservedIdentifier ==
    (phase = "parsed" /\ result.ok) => NoReservedNames(result.node.body)

\* C29 for the reserved words at which the statement parser cuts the
\* expression:  x := THEN ,  x := BREAK  and  IF := 1  are rejected.
C29_StopWordsRejected ==
    (phase = "parsed"
        /\ text \in {AssignThenText, AssignBreakText, IfTargetText,
                     TrueTargetText})
        => (~result.ok /\ result.err # "hang")

\* C29:  OUTPUT ELSE  is parsed to the output of an Identifier named ELSE.
C29_WitnessElse ==
    /\ phase = "parsed" /\ result.ok
    /\ text = OutputElseText
    /\ result.node.body = <<create_output_statement(create_identifier(KW_ELSE))>>

\* C29:  x := THEN  raises.
C29_WitnessThen ==
    /\ phase = "parsed"
    /\ text = AssignThenText
    /\ result.err = "ExpectedExpression"

-----------------------------------------------------------------------------
(* Claims about the state of a generator instance *)

\* The ids of the nodes of a text, and the ids its edges lead from and to.
NodeIds(items) ==
    {items[j].id : j \in {i \in 1..Len(items) : items[i].kind = "node"}}
EdgeEnds(items) ==
    UNION {{items[j].from, items[j].to} :
             j \in {i \in 1..Len(items) : items[i].kind = "edge"}}

\* The node ids of the text are pairwise distinct and every edge leads from
\* a node of the text to a node of the text.
ClosedDiagram(items) ==
    /\ Cardinality(NodeIds(items)) = Len(NodeItems(items))
    /\ EdgeEnds(items) \subseteq NodeIds(items)

Returned(k) == outputs[k].err = "none"

\* C30: every WhileStatement pushes its exit once before its body is walked
\* and pops it once after, so the loop-exit stack is empty when generate
\* returns normally; the node ids of one call are pairwise distinct and
\* every edge of the text leads from and to a node created in that call.
C30_StackDiscipline ==
    /\ (phase = "generated" /\ Returned(Len(outputs)))
            => gen.loop_exit_stack = <<>>
    /\ \A k \in 1..Len(outputs) :
            Returned(k) => ClosedDiagram(outputs[k].text)

\* C30 for an instance none of whose calls has raised.
C30_StackDisciplineNoRaise ==
    (\A k \in 1..Len(outputs) : Returned(k)) => C30_StackDiscipline

\* C30: after a call that raised inside a loop, a program with a break
\* outside every loop is drawn; its break has an edge to the exit node of
\* the earlier call, and the stack still holds that node.
C30_WitnessStale ==
    /\ phase = "generated"
    /\ Len(outputs) = 2
    /\ outputs[1].err = "KeyError"
    /\ ast = StrayBreakProgram
    /\ Returned(2)
    /\ gen.loop_exit_stack # <<>>
    /\ ~ClosedDiagram(outputs[2].text)

\* C30: two calls that return on one instance, for programs with nested
\* loops: the stack is empty after each, the ids of the second text follow
\* those of the first.
C30_WitnessReturned ==
    /\ phase = "generated"
    /\ Len(outputs) = 2
    /\ Returned(1) /\ Returned(2)
    /\ ast = InnerBreakProgram
    /\ gen.loop_exit_stack = <<>>
    /\ ClosedDiagram(outputs[2].text)
    /\ NodeIds(outputs[1].text) \cap NodeIds(outputs[2].text) = {}

====
